---- MODULE Spec2Model ----
(***************************************************************************)
(* Model of the launcher plugin SDK:                                       *)
(*   - api/Response.cpp     : the process-wide response-id counter         *)
(*   - system/Process.cpp   : launching a child (fork, descriptor hygiene, *)
(*                            exec) and terminating it                     *)
(* Each part has its own specification over the module's variables; a      *)
(* specification leaves the variables of the other parts unchanged.        *)
(***************************************************************************)
EXTENDS Integers, Sequences, FiniteSets, TLC

(***************************************************************************)
(* Bounds of the model.                                                    *)
(***************************************************************************)
\* Threads that construct Response objects.
NumThreads == 2
\* Response objects constructed in one behaviour, all threads together.
MaxResponses == 4
\* Calls of terminate() in one behaviour of a launch.
MaxTerminateCalls == 1
\* Calls of terminate() in one behaviour when it is exercised on its own.
MaxTerminateAlone == 3

VARIABLES
    \* ---- api/Response.cpp ----
    NEXT_RESPONSE_ID,   \* Response::Impl::NEXT_RESPONSE_ID
    rpc,                \* per thread: "idle", or "impl" while Response::Impl is being constructed
    rtype,              \* per thread: the in_responseType of the construction in progress
    constructed         \* per thread: the Response objects it has constructed, in order

VARIABLES
    \* ---- system/Process.cpp: one AbstractChildProcess instance and its child ----
    ppc,          \* position of the parent thread inside AbstractChildProcess::run
    cpc,          \* position of the forked child ("none" before fork)
    pfd,          \* descriptor numbers open in the parent process
    cfd,          \* descriptor numbers open in the child process
    fds,          \* the FileDescriptors struct of run(): Input, Output, Error, CloseFd
    hardLimit,    \* rlim_max of RLIMIT_NOFILE, handed to the child as in_maxFd
    softLimit,    \* rlim_cur of RLIMIT_NOFILE, which run() reads and does not use
    forkPid,      \* the pid fork stored in the parent: -1 on failure, 0 while not forked
    inherited,    \* descriptor numbers the child held right after fork
    openFds,      \* sendFileDescriptors: the vector filled by getOpenFds
    sent,         \* sendFileDescriptors: how many elements of openFds have been written
    sendError,    \* sendFileDescriptors: its local `error`
    sendResult,   \* what sendFileDescriptors returned ("unset" until it returns)
    runResult,    \* what run() returned to its caller ("unset" until it returns)
    ctl,          \* the 4-byte values in flight in the control pipe
    cerrno,       \* the child's errno
    fdsRead,      \* closeParentFds: local fdsRead
    readError,    \* closeParentFds: local error
    loopParity,   \* closeParentFds: parity of the number of `continue`s taken
    childOps,     \* the operations the child has performed since fork, in order
    childEnd,     \* how the child's run of this program's code ended
    Pid,          \* AbstractChildProcess::Impl::Pid
    termLog       \* the terminate() calls made so far, with what each did

VARIABLES
    \* ---- system/Process.cpp: SyncChildProcess::run of that instance ----
    spc,          \* position of the calling thread inside SyncChildProcess::run
    stdInput,     \* length of m_baseImpl->StandardInput, in units of pipe buffer
    inWritten,    \* units of StandardInput the ::write of writeToPipe has moved into the pipe
    inPipe,       \* units in flight in the standard-input pipe
    outPipe,      \* units in flight in the standard-output pipe
    errPipe,      \* units in flight in the standard-error pipe
    prog,         \* the program the child runs after exec: what it still writes, its status
    otherChild,   \* another child of the parent process, launched by another instance
    reaped,       \* which child the ::waitpid of run() reaped
    out_result,   \* the ProcessResult of the caller
    syncError,    \* SyncChildProcess::run: its local `error`
    syncResult,   \* what SyncChildProcess::run returned ("unset" until it returns)
    syncOps       \* the calls SyncChildProcess::run made after the launch, in order

VARIABLES
    \* ---- system/Process.cpp: Impl::createLaunchProfile and Impl::logProcessSpawn ----
    lpc,            \* position inside logProcessSpawn
    password,       \* in_options.Password
    StandardInput,  \* Impl::StandardInput, the launch profile createLaunchProfile wrote
    startPos1,      \* logProcessSpawn: startPos1
    startPos2,      \* logProcessSpawn: startPos2
    wasEmpty,       \* logProcessSpawn: wasEmpty
    scanParity,     \* logProcessSpawn: parity of the number of passes of while (true)
    logged          \* the launch profile as handed to logDebugMessage

VARIABLES
    \* ---- api/Response.cpp: one ClusterInfoResponse ----
    cipc,         \* "idle", "constructed" or "encoded"
    ciCtor,       \* which constructor built the response
    ciArgs,       \* the in_defaultImage the constructor was given
    ciImpl,       \* Response::Impl and ClusterInfoResponse::Impl of the response
    ciJson        \* what toJson() returned

VARIABLES
    \* ---- api/Request: one call of Request::fromJson ----
    rqpc,         \* "idle", "received" or "parsed"
    rqDoc,        \* the document handed to fromJson
    rqResult      \* the error fromJson returned, what was logged, the request

VARIABLES
    \* ---- system/Process.cpp: the constructor of AbstractChildProcess::Impl ----
    ipc,              \* "idle" or "constructed"
    in_options,       \* the ProcessOptions the constructor was given
    Arguments,        \* Impl::Arguments, the argument vector of the sandbox helper
    contextUsername   \* context.username of the launch profile createLaunchProfile wrote

responseVars == <<NEXT_RESPONSE_ID, rpc, rtype, constructed>>

launchVars == <<ppc, cpc, pfd, cfd, fds, hardLimit, softLimit, forkPid, inherited, openFds, sent,
                sendError, sendResult, runResult, ctl, cerrno, fdsRead, readError, loopParity,
                childOps, childEnd, Pid, termLog>>

\* SyncChildProcess::run and the program the child runs after exec
syncVars == <<spc, stdInput, inWritten, inPipe, outPipe, errPipe, prog, otherChild, reaped,
              out_result, syncError, syncResult, syncOps>>

\* Impl::logProcessSpawn
logVars == <<lpc, password, StandardInput, startPos1, startPos2, wasEmpty, scanParity, logged>>

\* The parts of the program that are functions of their arguments.
dataVars == <<logVars, cipc, ciCtor, ciArgs, ciImpl, ciJson, rqpc, rqDoc, rqResult,
              ipc, in_options, Arguments, contextUsername>>

vars == <<responseVars, launchVars, syncVars, dataVars>>

(***************************************************************************)
(* api/Response.cpp                                                        *)
(***************************************************************************)
Threads == 1..NumThreads

\* The Response::Type values the source constructs responses with.
ResponseTypes == {"ERROR", "HEARTBEAT", "BOOTSTRAP", "CLUSTER_INFO"}

IsUncounted_OnlyHeartbeat(type) == type = "HEARTBEAT"

\* (in_responseType == Type::HEARTBEAT) || (in_responseType == Type::ERROR)
IsUncounted(type) == (type = "HEARTBEAT") \/ (type = "ERROR")

ResponseIdOf_Inverted(type, counter) ==
    IF IsUncounted(type) THEN counter ELSE 0

\* The initializer of Impl::ResponseId: 0, or what fetch_add(1) returns,
\* which is the value of the counter before the addition.
ResponseIdOf(type, counter) ==
    IF IsUncounted(type) THEN 0 ELSE counter

CounterAfter_LostUpdate(type, counter) == counter

\* The counter after the initializer: fetch_add(1) adds one, atomically;
\* the other branch of the conditional does not touch the counter.
CounterAfter(type, counter) ==
    IF IsUncounted(type) THEN counter ELSE counter + 1

TotalConstructed ==
    LET RECURSIVE Sum(_)
        Sum(S) == IF S = {} THEN 0
                  ELSE LET t == CHOOSE x \in S : TRUE
                       IN Len(constructed[t]) + Sum(S \ {t})
    IN Sum(Threads)

InProgress == Cardinality({t \in Threads : rpc[t] = "impl"})

ResponseInit ==
    /\ NEXT_RESPONSE_ID = 0
    /\ rpc = [t \in Threads |-> "idle"]
    /\ rtype = [t \in Threads |-> "none"]
    /\ constructed = [t \in Threads |-> <<>>]

\* Response::Response: new Impl(in_responseType, in_requestId) is entered;
\* ResponseType and RequestId are initialized from the arguments.
ConstructBegin(t, type) ==
    /\ rpc[t] = "idle"
    /\ TotalConstructed + InProgress < MaxResponses
    /\ rpc' = [rpc EXCEPT ![t] = "impl"]
    /\ rtype' = [rtype EXCEPT ![t] = type]
    /\ UNCHANGED <<NEXT_RESPONSE_ID, constructed>>
    /\ UNCHANGED <<launchVars, syncVars, dataVars>>

\* The initializer of ResponseId runs (one atomic fetch_add, or the constant
\* 0) and the constructor returns the object to the thread.
ConstructResponseId(t) ==
    /\ rpc[t] = "impl"
    /\ constructed' = [constructed EXCEPT ![t] = Append(@,
            [ResponseType |-> rtype[t],
             ResponseId   |-> ResponseIdOf(rtype[t], NEXT_RESPONSE_ID)])]
    /\ NEXT_RESPONSE_ID' = CounterAfter(rtype[t], NEXT_RESPONSE_ID)
    /\ rpc' = [rpc EXCEPT ![t] = "idle"]
    /\ rtype' = [rtype EXCEPT ![t] = "none"]
    /\ UNCHANGED <<launchVars, syncVars, dataVars>>

ResponseNext ==
    \/ \E t \in Threads, type \in ResponseTypes : ConstructBegin(t, type)
    \/ \E t \in Threads : ConstructResponseId(t)

(***************************************************************************)
(* system/Process.cpp                                                      *)
(***************************************************************************)
\* const int s_threadSafeExitError = 153;
s_threadSafeExitError == 153

\* RLIM_INFINITY of <sys/resource.h>: the largest rlim_t, above every
\* descriptor number. The model writes it as the largest 32-bit integer.
RLIM_INFINITY == 2147483647

\* static const uint32_t startFd = STDERR_FILENO + 1;
startFd == 2 + 1

StdFds == {0, 1, 2}

\* Descriptors the parent may hold open, besides 0, 1 and 2, when it launches:
\* one low number, and one number above the 1024 of closeParentFds.
ExtraFds == {3, 1030}

\* The hard limits of RLIMIT_NOFILE getrlimit may report: a finite one above
\* every descriptor of the parent, and the unbounded one.
HardLimits == {4096, RLIM_INFINITY}

\* The pid fork returns in the parent when it succeeds.
ChildPids == {7}

\* Values of the Pid field terminate() is exercised with on its own: the -1 of
\* the constructor, and pids of children.
InstancePids == {-1, 2, 7, 30000}

\* errno values the model tells apart. The errno of the forking thread is
\* whatever its last failing call left there, and the child starts with it.
ErrnoValues == {"0", "EINTR", "EAGAIN", "EBADF"}

\* ---- decimal names of /proc/<pid>/fd and the order scandir returns them in
RECURSIVE DecimalDigits(_)
DecimalDigits(n) ==
    IF n < 10 THEN <<n>> ELSE Append(DecimalDigits(n \div 10), n % 10)

\* strcmp(a, b) < 0 on the decimal names (digits compare like their characters)
RECURSIVE StrLess(_, _)
StrLess(a, b) ==
    IF a = <<>> THEN b # <<>>
    ELSE IF b = <<>> THEN FALSE
    ELSE IF Head(a) # Head(b) THEN Head(a) < Head(b)
    ELSE StrLess(Tail(a), Tail(b))

\* getOpenFds: the entries of the directory, in the order of the comparator
\* handed to scandir, each converted with strtoul.
RECURSIVE ScandirOrder(_)
ScandirOrder(S) ==
    IF S = {} THEN <<>>
    ELSE LET first == CHOOSE x \in S :
                 \A y \in S \ {x} : StrLess(DecimalDigits(x), DecimalDigits(y))
         IN <<first>> \o ScandirOrder(S \ {first})

\* ::pipe: the two lowest descriptor numbers not open in the process
LowestFree(open) == CHOOSE n \in 0..(Cardinality(open)) : n \notin open

PipePair(open) ==
    LET r == LowestFree(open)
    IN <<r, LowestFree(open \cup {r})>>

\* s_readPipe = 0, s_writePipe = 1: the two positions of a pipe pair
ReadEnd(pair) == pair[1]
WriteEnd(pair) == pair[2]

NoPipe == <<0, 0>>

ShouldClose_AlsoThePipe(fd, in_maxFd, in_pipeFd) ==
    (fd >= startFd) /\ (fd < in_maxFd)

ShouldClose_SkipFirst(fd, in_maxFd, in_pipeFd) ==
    (fd > startFd) /\ (fd < in_maxFd) /\ (fd # in_pipeFd)

\* closeParentFds: (fd >= startFd) && (fd < in_maxFd) && (buffer != in_pipeFd)
ShouldClose(fd, in_maxFd, in_pipeFd) ==
    (fd >= startFd) /\ (fd < in_maxFd) /\ (fd # in_pipeFd)

\* closeParentFds: uint32_t maxFd = (in_maxFd == RLIM_INFINITY) ? 1024 : in_maxFd;
SweepMax(in_maxFd) == IF in_maxFd = RLIM_INFINITY THEN 1024 ELSE in_maxFd

\* closeParentFds: for (fd = startFd; fd < maxFd; ++fd) if (fd != in_pipeFd) closeFd(fd);
SweepClosed(open, in_maxFd, in_pipeFd) ==
    {fd \in open : (fd >= startFd) /\ (fd < SweepMax(in_maxFd)) /\ (fd # in_pipeFd)}

\* closeParentFds: the read is tried again when !((errno != EINTR) && (errno != EAGAIN))
RetriesRead(e) == ~((e # "EINTR") /\ (e # "EAGAIN"))

\* Some process holds the write end of the control pipe: a read of the empty
\* pipe blocks instead of returning 0.
CtlWriterOpen == WriteEnd(fds.CloseFd) \in (pfd \cup cfd)

\* Some process holds the read end of the control pipe: a write to it can
\* succeed.
CtlReaderOpen == ReadEnd(fds.CloseFd) \in (pfd \cup cfd)

\* The child is between fork and exec, running this program's code.
ChildInProgram == cpc \notin {"none", "exited", "execed", "finished"}

NoEnd == [how |-> "none", code |-> 0]

LaunchInit ==
    /\ ppc = "start"
    /\ cpc = "none"
    /\ \E extra \in SUBSET ExtraFds : pfd = StdFds \cup extra
    /\ cfd = {}
    /\ fds = [Input |-> NoPipe, Output |-> NoPipe, Error |-> NoPipe, CloseFd |-> NoPipe]
    /\ hardLimit \in HardLimits
    /\ softLimit \in {soft \in HardLimits : soft <= hardLimit}
    /\ forkPid = 0
    /\ inherited = {}
    /\ openFds = <<>>
    /\ sent = 0
    /\ sendError = "Success"
    /\ sendResult = "unset"
    /\ runResult = "unset"
    /\ ctl = <<>>
    /\ cerrno \in ErrnoValues
    /\ fdsRead = FALSE
    /\ readError = FALSE
    /\ loopParity = 0
    /\ childOps = <<>>
    /\ childEnd = NoEnd
    /\ Pid = -1
    /\ termLog = <<>>

\* The variables of this part, the Pid of the instance excepted, while no
\* process is launched.
NoLaunch ==
    /\ ppc = "start"
    /\ cpc = "none"
    /\ pfd = StdFds
    /\ cfd = {}
    /\ fds = [Input |-> NoPipe, Output |-> NoPipe, Error |-> NoPipe, CloseFd |-> NoPipe]
    /\ hardLimit = RLIM_INFINITY
    /\ softLimit = RLIM_INFINITY
    /\ forkPid = 0
    /\ inherited = {}
    /\ openFds = <<>>
    /\ sent = 0
    /\ sendError = "Success"
    /\ sendResult = "unset"
    /\ runResult = "unset"
    /\ ctl = <<>>
    /\ cerrno = "0"
    /\ fdsRead = FALSE
    /\ readError = FALSE
    /\ loopParity = 0
    /\ childOps = <<>>
    /\ childEnd = NoEnd
    /\ termLog = <<>>

NoResult == [StdOut |-> 0, StdError |-> 0, ExitCode |-> 0]
NoProgram == [outLeft |-> 0, errLeft |-> 0, out |-> 0, err |-> 0, status |-> 0]

\* The variables of SyncChildProcess::run while no synchronous run is made.
NoSync ==
    /\ spc = "idle"
    /\ stdInput = 0
    /\ inWritten = 0
    /\ inPipe = 0
    /\ outPipe = 0
    /\ errPipe = 0
    /\ prog = NoProgram
    /\ otherChild = "none"
    /\ reaped = "none"
    /\ out_result = NoResult
    /\ syncError = "Success"
    /\ syncResult = "unset"
    /\ syncOps = <<>>

(***************************************************************************)
(* api/Response.cpp: ClusterInfoResponse                                   *)
(***************************************************************************)
\* The names of the fields of the documents, FIELD_MESSAGE_TYPE and the
\* others of api/Constants.hpp.
FIELD ==
    [MESSAGE_TYPE          |-> "messageType",
     REQUEST_ID            |-> "requestId",
     RESPONSE_ID           |-> "responseId",
     CONTAINER_SUPPORT     |-> "containerSupport",
     DEFAULT_IMAGE         |-> "defaultImage",
     ALLOW_UNKNOWN_IMAGES  |-> "allowUnknownImages",
     IMAGES                |-> "images",
     QUEUES                |-> "queues",
     CONFIG                |-> "config",
     RESOURCE_LIMITS       |-> "resourceLimits",
     PLACEMENT_CONSTRAINTS |-> "placementConstraints",
     VERSION               |-> "version",
     VERSION_MAJOR         |-> "major",
     VERSION_MINOR         |-> "minor",
     VERSION_PATCH         |-> "patch",
     REAL_USER             |-> "realUser",
     REQUEST_USERNAME      |-> "requestUsername",
     JOB_ID                |-> "jobId",
     ENCODED_JOB_ID        |-> "encodedJobId",
     JOB_END_TIME          |-> "jobEndTime",
     JOB_START_TIME        |-> "jobStartTime",
     JOB_FIELDS            |-> "jobFields",
     JOB_STATUSES          |-> "jobStatuses",
     JOB_TAGS              |-> "jobTags"]

\* json::Object::insert and operator[]= : a document is a function from its
\* keys to their values, the empty one is <<>>; the key is added, or its
\* value replaced.
Insert(obj, key, value) ==
    [k \in (DOMAIN obj) \cup {key} |-> IF k = key THEN value ELSE obj[k]]

\* json::toJsonArray of a std::set<std::string>: its elements in the order of
\* the set, which is the order of the names.
SetToJsonArray(S) == SelectSeq(<<"img1", "img2">>, LAMBDA name : name \in S)

\* for (const T& v : list) array.push_back(v.toJson()); with the
\* sub-document JobConfig::toJson, PlacementConstraint::toJson or
\* ResourceLimit::toJson makes of one element.
ListToJsonArray(list) == [i \in 1..Len(list) |-> [object |-> list[i]]]

\* ClusterInfoResponse::Impl, first constructor (no containers).
ImplWithoutContainers(requestId, queues, limits, constraints, config, counter) ==
    [ResponseType         |-> "CLUSTER_INFO",
     RequestId            |-> requestId,
     ResponseId           |-> ResponseIdOf("CLUSTER_INFO", counter),
     AllowUnknownImages   |-> FALSE,
     Config               |-> config,
     ContainerImages      |-> {},
     DefaultImage         |-> "",
     PlacementConstraints |-> constraints,
     Queues               |-> queues,
     ResourceLimits       |-> limits,
     SupportsContainers   |-> FALSE]

\* ClusterInfoResponse::Impl, second constructor (containers).
ImplWithContainers(requestId, images, defaultImage, allowUnknown, queues, limits, constraints, config, counter) ==
    [ResponseType         |-> "CLUSTER_INFO",
     RequestId            |-> requestId,
     ResponseId           |-> ResponseIdOf("CLUSTER_INFO", counter),
     AllowUnknownImages   |-> allowUnknown,
     Config               |-> config,
     ContainerImages      |-> images,
     DefaultImage         |-> defaultImage,
     PlacementConstraints |-> constraints,
     Queues               |-> queues,
     ResourceLimits       |-> limits,
     SupportsContainers   |-> TRUE]

\* Response::toJson: the three fields of the base class.
ResponseToJson(impl) ==
    Insert(Insert(Insert(<<>>,
        FIELD.MESSAGE_TYPE, impl.ResponseType),
        FIELD.REQUEST_ID, impl.RequestId),
        FIELD.RESPONSE_ID, impl.ResponseId)

ClusterInfoToJson_DefaultImageAlways(impl) ==
    LET support == Insert(ResponseToJson(impl), FIELD.CONTAINER_SUPPORT, impl.SupportsContainers)
        images == IF impl.SupportsContainers
                  THEN Insert(Insert(Insert(support,
                           FIELD.DEFAULT_IMAGE, impl.DefaultImage),
                           FIELD.ALLOW_UNKNOWN_IMAGES, impl.AllowUnknownImages),
                           FIELD.IMAGES, SetToJsonArray(impl.ContainerImages))
                  ELSE support
        queues == IF impl.Queues # <<>>
                  THEN Insert(images, FIELD.QUEUES, impl.Queues)
                  ELSE images
    IN Insert(Insert(Insert(queues,
           FIELD.CONFIG, ListToJsonArray(impl.Config)),
           FIELD.RESOURCE_LIMITS, ListToJsonArray(impl.ResourceLimits)),
           FIELD.PLACEMENT_CONSTRAINTS, ListToJsonArray(impl.PlacementConstraints))

ClusterInfoToJson_QueuesAlways(impl) ==
    LET support == Insert(ResponseToJson(impl), FIELD.CONTAINER_SUPPORT, impl.SupportsContainers)
        images == IF impl.SupportsContainers
                  THEN LET withDefault == IF impl.DefaultImage # ""
                                          THEN Insert(support, FIELD.DEFAULT_IMAGE,
                                                      impl.DefaultImage)
                                          ELSE support
                       IN Insert(Insert(withDefault,
                              FIELD.ALLOW_UNKNOWN_IMAGES, impl.AllowUnknownImages),
                              FIELD.IMAGES, SetToJsonArray(impl.ContainerImages))
                  ELSE support
        queues == Insert(images, FIELD.QUEUES, impl.Queues)
    IN Insert(Insert(Insert(queues,
           FIELD.CONFIG, ListToJsonArray(impl.Config)),
           FIELD.RESOURCE_LIMITS, ListToJsonArray(impl.ResourceLimits)),
           FIELD.PLACEMENT_CONSTRAINTS, ListToJsonArray(impl.PlacementConstraints))

\* ClusterInfoResponse::toJson
ClusterInfoToJson(impl) ==
    LET support == Insert(ResponseToJson(impl), FIELD.CONTAINER_SUPPORT, impl.SupportsContainers)
        \* if (m_impl->SupportsContainers)
        images == IF impl.SupportsContainers
                  THEN LET \* if (!m_impl->DefaultImage.empty())
                           withDefault == IF impl.DefaultImage # ""
                                          THEN Insert(support, FIELD.DEFAULT_IMAGE,
                                                      impl.DefaultImage)
                                          ELSE support
                       IN Insert(Insert(withDefault,
                              FIELD.ALLOW_UNKNOWN_IMAGES, impl.AllowUnknownImages),
                              FIELD.IMAGES, SetToJsonArray(impl.ContainerImages))
                  ELSE support
        \* if (!m_impl->Queues.empty())
        queues == IF impl.Queues # <<>>
                  THEN Insert(images, FIELD.QUEUES, impl.Queues)
                  ELSE images
    IN Insert(Insert(Insert(queues,
           FIELD.CONFIG, ListToJsonArray(impl.Config)),
           FIELD.RESOURCE_LIMITS, ListToJsonArray(impl.ResourceLimits)),
           FIELD.PLACEMENT_CONSTRAINTS, ListToJsonArray(impl.PlacementConstraints))

\* ClusterInfoResponse::ClusterInfoResponse(in_requestId, in_queues,
\* in_resourceLimits, in_placementConstraints, in_config)
ConstructWithoutContainers(requestId, queues, limits, constraints, config) ==
    /\ cipc \in {"idle", "encoded"}
    /\ NEXT_RESPONSE_ID < MaxResponses
    /\ ciImpl' = ImplWithoutContainers(requestId, queues, limits, constraints, config,
                                       NEXT_RESPONSE_ID)
    /\ NEXT_RESPONSE_ID' = CounterAfter("CLUSTER_INFO", NEXT_RESPONSE_ID)
    /\ ciCtor' = "without_containers"
    /\ ciArgs' = [defaultImage |-> ""]
    /\ ciJson' = <<>>
    /\ cipc' = "constructed"
    /\ UNCHANGED <<rpc, rtype, constructed>>
    /\ UNCHANGED <<launchVars, syncVars, logVars, rqpc, rqDoc, rqResult,
                   ipc, in_options, Arguments, contextUsername>>

\* ClusterInfoResponse::ClusterInfoResponse(in_requestId, in_containerImages,
\* in_defaultImage, in_allowUnknownImages, in_queues, in_resourceLimits,
\* in_placementConstraints, in_config)
ConstructWithContainers(requestId, images, defaultImage, allowUnknown, queues, limits, constraints, config) ==
    /\ cipc \in {"idle", "encoded"}
    /\ NEXT_RESPONSE_ID < MaxResponses
    /\ ciImpl' = ImplWithContainers(requestId, images, defaultImage, allowUnknown,
                                    queues, limits, constraints, config, NEXT_RESPONSE_ID)
    /\ NEXT_RESPONSE_ID' = CounterAfter("CLUSTER_INFO", NEXT_RESPONSE_ID)
    /\ ciCtor' = "with_containers"
    /\ ciArgs' = [defaultImage |-> defaultImage]
    /\ ciJson' = <<>>
    /\ cipc' = "constructed"
    /\ UNCHANGED <<rpc, rtype, constructed>>
    /\ UNCHANGED <<launchVars, syncVars, logVars, rqpc, rqDoc, rqResult,
                   ipc, in_options, Arguments, contextUsername>>

\* ClusterInfoResponse::toJson() of the response constructed last
EncodeClusterInfo ==
    /\ cipc = "constructed"
    /\ ciJson' = ClusterInfoToJson(ciImpl)
    /\ cipc' = "encoded"
    /\ UNCHANGED <<ciCtor, ciArgs, ciImpl>>
    /\ UNCHANGED <<responseVars, launchVars, syncVars, logVars, rqpc, rqDoc, rqResult,
                   ipc, in_options, Arguments, contextUsername>>

\* The constructors with the arguments they are exercised with, and toJson.
ClusterNext ==
    \/ \E queues \in {<<>>, <<"q1">>, <<"q1", "q2">>}, limits \in {<<>>, <<"lim1">>},
          constraints \in {<<>>, <<"con1">>}, config \in {<<>>, <<"cfg1">>} :
          ConstructWithoutContainers(6, queues, limits, constraints, config)
    \/ \E images \in SUBSET {"img1", "img2"}, defaultImage \in {"", "img1"},
          allowUnknown \in BOOLEAN,
          queues \in {<<>>, <<"q1">>, <<"q1", "q2">>}, limits \in {<<>>, <<"lim1">>},
          constraints \in {<<>>, <<"con1">>}, config \in {<<>>, <<"cfg1">>} :
          ConstructWithContainers(6, images, defaultImage, allowUnknown,
                                  queues, limits, constraints, config)
    \/ EncodeClusterInfo

(***************************************************************************)
(* api/Request: Request::fromJson                                          *)
(***************************************************************************)
\* Request::Type, in the order of its values from 0 up; the highest known
\* type is the last.
RequestTypes == <<"HEARTBEAT", "BOOTSTRAP", "GET_CLUSTER_INFO", "GET_JOB", "GET_JOB_STATUS">>

\* The decimal text of an integer, one character per element.
DecimalText(n) ==
    LET digits == DecimalDigits(IF n < 0 THEN -n ELSE n)
        chars == [i \in 1..Len(digits) |->
                     <<"0", "1", "2", "3", "4", "5", "6", "7", "8", "9">>[digits[i] + 1]]
    IN IF n < 0 THEN <<"-">> \o chars ELSE chars

\* text.find(part) != std::string::npos
Contains(text, part) ==
    \E i \in 0..(Len(text) - Len(part)) : SubSeq(text, i + 1, i + Len(part)) = part

TypeInRange_NoLowerBound(n) == n <= Len(RequestTypes) - 1

\* The tag is a known one: not negative, not above the highest known type.
TypeInRange(n) == (n >= 0) /\ (n <= Len(RequestTypes) - 1)

HasMessageType_Defaulted(doc) == TRUE

\* The document has the messageType field.
HasMessageType(doc) == FIELD.MESSAGE_TYPE \in DOMAIN doc

\* The base constructor of Request: the ERROR entry it logs when the
\* requestId is missing.
BaseErrors(doc) ==
    IF FIELD.REQUEST_ID \in DOMAIN doc THEN <<>>
    ELSE <<[Level |-> "ERR", names |-> FIELD.REQUEST_ID]>>

\* The constructor of the subtype, and the ERROR entry it logs for what is
\* missing or of the wrong kind. BOOTSTRAP requires the version object with
\* its three numbers; the requests of a user require realUser; the job-state
\* request also requires jobId, and jobTags, when present, must be an array.
SubtypeErrors(type, doc) ==
    IF type = "BOOTSTRAP"
    THEN IF FIELD.VERSION \notin DOMAIN doc
         THEN <<[Level |-> "ERR", names |-> FIELD.VERSION]>>
         ELSE LET missing == {FIELD.VERSION_MAJOR, FIELD.VERSION_MINOR, FIELD.VERSION_PATCH}
                                 \ DOMAIN doc[FIELD.VERSION]
              IN IF missing = {} THEN <<>>
                 ELSE <<[Level |-> "ERR", names |-> CHOOSE f \in missing : TRUE]>>
    ELSE IF type \in {"GET_CLUSTER_INFO", "GET_JOB", "GET_JOB_STATUS"}
            /\ FIELD.REAL_USER \notin DOMAIN doc
    THEN <<[Level |-> "ERR", names |-> FIELD.REAL_USER]>>
    ELSE IF type = "GET_JOB" /\ FIELD.JOB_ID \notin DOMAIN doc
    THEN <<[Level |-> "ERR", names |-> FIELD.JOB_ID]>>
    ELSE IF type = "GET_JOB" /\ FIELD.JOB_TAGS \in DOMAIN doc
            /\ doc[FIELD.JOB_TAGS].kind # "array"
    THEN <<[Level |-> "ERR", names |-> FIELD.JOB_TAGS]>>
    ELSE <<>>

JobStateFields_AbortsOnInvalid(doc) ==
    LET has(key) == key \in DOMAIN doc
        valid(key) == ~has(key) \/ doc[key] \in {"2020-03-15T15:00:00", "2020-03-15T18:00:00"}
        names == IF has(FIELD.JOB_STATUSES)
                 THEN {doc[FIELD.JOB_STATUSES][i] : i \in DOMAIN doc[FIELD.JOB_STATUSES]}
                 ELSE {}
        bad == ~valid(FIELD.JOB_END_TIME) \/ ~valid(FIELD.JOB_START_TIME)
               \/ ~(names \subseteq {"Pending", "Running"})
        time(key) == IF has(key) /\ ~bad THEN [error |-> FALSE, value |-> <<doc[key]>>]
                     ELSE [error |-> bad, value |-> <<>>]
    IN [User            |-> IF has(FIELD.REAL_USER) THEN doc[FIELD.REAL_USER] ELSE "",
        RequestUsername |-> IF has(FIELD.REQUEST_USERNAME) /\ ~bad
                            THEN doc[FIELD.REQUEST_USERNAME] ELSE "",
        JobId           |-> IF has(FIELD.JOB_ID) THEN doc[FIELD.JOB_ID] ELSE "",
        EncodedJobId    |-> IF has(FIELD.ENCODED_JOB_ID) /\ ~bad
                            THEN doc[FIELD.ENCODED_JOB_ID] ELSE "",
        EndTime         |-> time(FIELD.JOB_END_TIME),
        StartTime       |-> time(FIELD.JOB_START_TIME),
        FieldSet        |-> IF has(FIELD.JOB_FIELDS) /\ ~bad
                            THEN <<{"id"} \cup {doc[FIELD.JOB_FIELDS][i] :
                                                   i \in DOMAIN doc[FIELD.JOB_FIELDS]}>>
                            ELSE <<>>,
        StatusSet       |-> IF has(FIELD.JOB_STATUSES) /\ ~bad
                            THEN [error |-> FALSE, value |-> <<names>>]
                            ELSE [error |-> bad, value |-> <<>>],
        TagSet          |-> IF has(FIELD.JOB_TAGS) /\ ~bad
                            THEN <<{doc[FIELD.JOB_TAGS].items[i] :
                                       i \in DOMAIN doc[FIELD.JOB_TAGS].items}>>
                            ELSE <<>>]

JobStateFields_KeepsValidStatuses(doc) ==
    LET has(key) == key \in DOMAIN doc
        time(key) == IF ~has(key) THEN [error |-> FALSE, value |-> <<>>]
                     ELSE IF doc[key] \in {"2020-03-15T15:00:00", "2020-03-15T18:00:00"}
                     THEN [error |-> FALSE, value |-> <<doc[key]>>]
                     ELSE [error |-> TRUE, value |-> <<>>]
        names == IF has(FIELD.JOB_STATUSES)
                 THEN {doc[FIELD.JOB_STATUSES][i] : i \in DOMAIN doc[FIELD.JOB_STATUSES]}
                 ELSE {}
    IN [User            |-> IF has(FIELD.REAL_USER) THEN doc[FIELD.REAL_USER] ELSE "",
        RequestUsername |-> IF has(FIELD.REQUEST_USERNAME)
                            THEN doc[FIELD.REQUEST_USERNAME] ELSE "",
        JobId           |-> IF has(FIELD.JOB_ID) THEN doc[FIELD.JOB_ID] ELSE "",
        EncodedJobId    |-> IF has(FIELD.ENCODED_JOB_ID) THEN doc[FIELD.ENCODED_JOB_ID] ELSE "",
        EndTime         |-> time(FIELD.JOB_END_TIME),
        StartTime       |-> time(FIELD.JOB_START_TIME),
        FieldSet        |-> IF has(FIELD.JOB_FIELDS)
                            THEN <<{"id"} \cup {doc[FIELD.JOB_FIELDS][i] :
                                                   i \in DOMAIN doc[FIELD.JOB_FIELDS]}>>
                            ELSE <<>>,
        StatusSet       |-> IF ~has(FIELD.JOB_STATUSES)
                            THEN [error |-> FALSE, value |-> <<>>]
                            ELSE [error |-> ~(names \subseteq {"Pending", "Running"}),
                                  value |-> <<names \cap {"Pending", "Running"}>>],
        TagSet          |-> IF has(FIELD.JOB_TAGS)
                            THEN <<{doc[FIELD.JOB_TAGS].items[i] :
                                       i \in DOMAIN doc[FIELD.JOB_TAGS].items}>>
                            ELSE <<>>]

JobStateFields_FieldsAsGiven(doc) ==
    LET has(key) == key \in DOMAIN doc
        time(key) == IF ~has(key) THEN [error |-> FALSE, value |-> <<>>]
                     ELSE IF doc[key] \in {"2020-03-15T15:00:00", "2020-03-15T18:00:00"}
                     THEN [error |-> FALSE, value |-> <<doc[key]>>]
                     ELSE [error |-> TRUE, value |-> <<>>]
        names == IF has(FIELD.JOB_STATUSES)
                 THEN {doc[FIELD.JOB_STATUSES][i] : i \in DOMAIN doc[FIELD.JOB_STATUSES]}
                 ELSE {}
    IN [User            |-> IF has(FIELD.REAL_USER) THEN doc[FIELD.REAL_USER] ELSE "",
        RequestUsername |-> IF has(FIELD.REQUEST_USERNAME)
                            THEN doc[FIELD.REQUEST_USERNAME] ELSE "",
        JobId           |-> IF has(FIELD.JOB_ID) THEN doc[FIELD.JOB_ID] ELSE "",
        EncodedJobId    |-> IF has(FIELD.ENCODED_JOB_ID) THEN doc[FIELD.ENCODED_JOB_ID] ELSE "",
        EndTime         |-> time(FIELD.JOB_END_TIME),
        StartTime       |-> time(FIELD.JOB_START_TIME),
        FieldSet        |-> IF has(FIELD.JOB_FIELDS)
                            THEN <<{doc[FIELD.JOB_FIELDS][i] :
                                       i \in DOMAIN doc[FIELD.JOB_FIELDS]}>>
                            ELSE <<>>,
        StatusSet       |-> IF ~has(FIELD.JOB_STATUSES)
                            THEN [error |-> FALSE, value |-> <<>>]
                            ELSE IF names \subseteq {"Pending", "Running"}
                            THEN [error |-> FALSE, value |-> <<names>>]
                            ELSE [error |-> TRUE, value |-> <<>>],
        TagSet          |-> IF has(FIELD.JOB_TAGS)
                            THEN <<{doc[FIELD.JOB_TAGS].items[i] :
                                       i \in DOMAIN doc[FIELD.JOB_TAGS].items}>>
                            ELSE <<>>]

\* JobStateRequest::JobStateRequest and its getters: what the request holds
\* for each field of the document. An optional value is <<>> when absent and
\* <<value>> when present; a date and the status set carry the error their
\* getter returns. Each optional field is read on its own: a text that is no
\* date, or a status name that is no job state, marks that field alone.
JobStateFields(doc) ==
    LET has(key) == key \in DOMAIN doc
        \* system::DateTime::fromString of the text of the field
        time(key) == IF ~has(key) THEN [error |-> FALSE, value |-> <<>>]
                     ELSE IF doc[key] \in {"2020-03-15T15:00:00", "2020-03-15T18:00:00"}
                     THEN [error |-> FALSE, value |-> <<doc[key]>>]
                     ELSE [error |-> TRUE, value |-> <<>>]
        names == IF has(FIELD.JOB_STATUSES)
                 THEN {doc[FIELD.JOB_STATUSES][i] : i \in DOMAIN doc[FIELD.JOB_STATUSES]}
                 ELSE {}
    IN [User            |-> IF has(FIELD.REAL_USER) THEN doc[FIELD.REAL_USER] ELSE "",
        RequestUsername |-> IF has(FIELD.REQUEST_USERNAME)
                            THEN doc[FIELD.REQUEST_USERNAME] ELSE "",
        JobId           |-> IF has(FIELD.JOB_ID) THEN doc[FIELD.JOB_ID] ELSE "",
        EncodedJobId    |-> IF has(FIELD.ENCODED_JOB_ID) THEN doc[FIELD.ENCODED_JOB_ID] ELSE "",
        EndTime         |-> time(FIELD.JOB_END_TIME),
        StartTime       |-> time(FIELD.JOB_START_TIME),
        \* the identifier field is always part of the field set
        FieldSet        |-> IF has(FIELD.JOB_FIELDS)
                            THEN <<{"id"} \cup {doc[FIELD.JOB_FIELDS][i] :
                                                   i \in DOMAIN doc[FIELD.JOB_FIELDS]}>>
                            ELSE <<>>,
        \* Job::State names: one that is none leaves the set without a value
        StatusSet       |-> IF ~has(FIELD.JOB_STATUSES)
                            THEN [error |-> FALSE, value |-> <<>>]
                            ELSE IF names \subseteq {"Pending", "Running"}
                            THEN [error |-> FALSE, value |-> <<names>>]
                            ELSE [error |-> TRUE, value |-> <<>>],
        TagSet          |-> IF has(FIELD.JOB_TAGS)
                            THEN <<{doc[FIELD.JOB_TAGS].items[i] :
                                       i \in DOMAIN doc[FIELD.JOB_TAGS].items}>>
                            ELSE <<>>]

\* out_request when fromJson yields no request.
NoRequest == [Type |-> "none", Id |-> 0]

FromJson_SubtypeFirst(doc) ==
    LET \* the value read for the tag: that of the field
        tag == IF FIELD.MESSAGE_TYPE \in DOMAIN doc THEN doc[FIELD.MESSAGE_TYPE] ELSE 0
    IN IF ~HasMessageType(doc)
       THEN [failed |-> TRUE,
             text |-> <<"Invalid request: missing field ", FIELD.MESSAGE_TYPE>>,
             log |-> <<>>, request |-> NoRequest]
       ELSE IF ~TypeInRange(tag)
       THEN [failed |-> TRUE,
             text |-> <<"Invalid request type received from launcher: ">> \o DecimalText(tag),
             log |-> <<>>, request |-> NoRequest]
       ELSE LET type == IF (tag + 1) \in DOMAIN RequestTypes
                        THEN RequestTypes[tag + 1] ELSE "UNKNOWN"
                log == SubtypeErrors(type, doc) \o BaseErrors(doc)
            IN IF log # <<>>
               THEN [failed |-> TRUE, text |-> <<"Invalid request received from launcher">>,
                     log |-> log, request |-> NoRequest]
               ELSE IF type = "GET_JOB"
               THEN [failed |-> FALSE, text |-> <<>>, log |-> <<>>,
                     request |-> [Type |-> type, Id |-> doc[FIELD.REQUEST_ID],
                                  Job |-> JobStateFields(doc)]]
               ELSE [failed |-> FALSE, text |-> <<>>, log |-> <<>>,
                     request |-> [Type |-> type, Id |-> doc[FIELD.REQUEST_ID]]]

FromJson_AcceptsInvalidSubtype(doc) ==
    LET \* the value read for the tag: that of the field
        tag == IF FIELD.MESSAGE_TYPE \in DOMAIN doc THEN doc[FIELD.MESSAGE_TYPE] ELSE 0
    IN IF ~HasMessageType(doc)
       THEN [failed |-> TRUE,
             text |-> <<"Invalid request: missing field ", FIELD.MESSAGE_TYPE>>,
             log |-> <<>>, request |-> NoRequest]
       ELSE IF ~TypeInRange(tag)
       THEN [failed |-> TRUE,
             text |-> <<"Invalid request type received from launcher: ">> \o DecimalText(tag),
             log |-> <<>>, request |-> NoRequest]
       ELSE LET type == IF (tag + 1) \in DOMAIN RequestTypes
                        THEN RequestTypes[tag + 1] ELSE "UNKNOWN"
                log == BaseErrors(doc)
            IN IF log # <<>>
               THEN [failed |-> TRUE, text |-> <<"Invalid request received from launcher">>,
                     log |-> log, request |-> NoRequest]
               ELSE IF type = "GET_JOB"
               THEN [failed |-> FALSE, text |-> <<>>, log |-> <<>>,
                     request |-> [Type |-> type, Id |-> doc[FIELD.REQUEST_ID],
                                  Job |-> JobStateFields(doc)]]
               ELSE [failed |-> FALSE, text |-> <<>>, log |-> <<>>,
                     request |-> [Type |-> type, Id |-> doc[FIELD.REQUEST_ID]]]

\* Request::fromJson(in_requestJson, out_request): the error, its text, the
\* entries logged, and the request.
FromJson(doc) ==
    LET \* the value read for the tag: that of the field
        tag == IF FIELD.MESSAGE_TYPE \in DOMAIN doc THEN doc[FIELD.MESSAGE_TYPE] ELSE 0
    IN IF ~HasMessageType(doc)
       THEN [failed |-> TRUE,
             text |-> <<"Invalid request: missing field ", FIELD.MESSAGE_TYPE>>,
             log |-> <<>>, request |-> NoRequest]
       ELSE IF ~TypeInRange(tag)
       THEN [failed |-> TRUE,
             text |-> <<"Invalid request type received from launcher: ">> \o DecimalText(tag),
             log |-> <<>>, request |-> NoRequest]
       ELSE LET type == IF (tag + 1) \in DOMAIN RequestTypes
                        THEN RequestTypes[tag + 1] ELSE "UNKNOWN"
                \* the base constructor runs before that of the subtype
                log == BaseErrors(doc) \o SubtypeErrors(type, doc)
            IN IF log # <<>>
               THEN [failed |-> TRUE, text |-> <<"Invalid request received from launcher">>,
                     log |-> log, request |-> NoRequest]
               ELSE IF type = "GET_JOB"
               THEN [failed |-> FALSE, text |-> <<>>, log |-> <<>>,
                     request |-> [Type |-> type, Id |-> doc[FIELD.REQUEST_ID],
                                  Job |-> JobStateFields(doc)]]
               ELSE [failed |-> FALSE, text |-> <<>>, log |-> <<>>,
                     request |-> [Type |-> type, Id |-> doc[FIELD.REQUEST_ID]]]

\* A document arrives from the launcher. An absent field is written <<>>, a
\* present one <<value>>.
ReceiveDocument(messageType, requestId, version) ==
    /\ rqpc \in {"idle", "parsed"}
    /\ rqDoc' = LET put(obj, key, input) ==
                        IF input = <<>> THEN obj ELSE Insert(obj, key, input[1])
                IN put(put(put(<<>>,
                       FIELD.MESSAGE_TYPE, messageType),
                       FIELD.REQUEST_ID, requestId),
                       FIELD.VERSION, version)
    /\ rqResult' = [failed |-> FALSE, text |-> <<>>, log |-> <<>>, request |-> NoRequest]
    /\ rqpc' = "received"
    /\ UNCHANGED <<responseVars, launchVars, syncVars, logVars,
                   cipc, ciCtor, ciArgs, ciImpl, ciJson, ipc, in_options, Arguments, contextUsername>>

\* Request::fromJson on the document.
ParseRequest ==
    /\ rqpc = "received"
    /\ rqResult' = FromJson(rqDoc)
    /\ rqpc' = "parsed"
    /\ UNCHANGED rqDoc
    /\ UNCHANGED <<responseVars, launchVars, syncVars, logVars,
                   cipc, ciCtor, ciArgs, ciImpl, ciJson, ipc, in_options, Arguments, contextUsername>>

\* A GET_JOB document arrives from the launcher, with its requestId, realUser
\* and requestUsername. An absent field is written <<>>, a present one
\* <<value>>; the value of jobTags is an array or a number.
ReceiveJobDocument(jobId, encodedJobId, endTime, startTime, fields, statuses, tags) ==
    /\ rqpc = "idle"
    /\ rqDoc' = LET put(obj, key, input) ==
                        IF input = <<>> THEN obj ELSE Insert(obj, key, input[1])
                    base == [k \in {FIELD.MESSAGE_TYPE, FIELD.REQUEST_ID} |->
                                IF k = FIELD.MESSAGE_TYPE THEN 3 ELSE 91]
                IN put(put(put(put(put(put(put(put(put(base,
                       FIELD.REAL_USER, <<"user2">>),
                       FIELD.REQUEST_USERNAME, <<"user2">>),
                       FIELD.JOB_ID, jobId),
                       FIELD.ENCODED_JOB_ID, encodedJobId),
                       FIELD.JOB_END_TIME, endTime),
                       FIELD.JOB_START_TIME, startTime),
                       FIELD.JOB_FIELDS, fields),
                       FIELD.JOB_STATUSES, statuses),
                       FIELD.JOB_TAGS, tags)
    /\ rqpc' = "received"
    /\ UNCHANGED rqResult
    /\ UNCHANGED <<responseVars, launchVars, syncVars, logVars,
                   cipc, ciCtor, ciArgs, ciImpl, ciJson, ipc, in_options, Arguments, contextUsername>>

\* The job-state documents fromJson is exercised with: each optional field
\* absent, valid or invalid.
JobRequestNext ==
    \/ \E jobId \in {<<>>, <<"444">>}, encodedJobId \in {<<>>, <<"Y2x1c3Rlci0xNDIK">>},
          endTime \in {<<>>, <<"2020-03-15T18:00:00">>, <<"not a date time">>},
          startTime \in {<<>>, <<"2020-03-15T15:00:00">>, <<"not a date time">>},
          fields \in {<<>>, <<<<"status", "statusMessage">>>>, <<<<"id", "status">>>>},
          statuses \in {<<>>, <<<<"Pending", "Running">>>>,
                        <<<<"Running", "NotAStatus", "Pending">>>>},
          tags \in {<<>>, <<[kind |-> "array", items |-> <<"tag1", "tag 2">>]>>,
                    <<[kind |-> "number", items |-> <<>>]>>} :
          ReceiveJobDocument(jobId, encodedJobId, endTime, startTime, fields, statuses, tags)
    \/ ParseRequest

\* The documents fromJson is exercised with: a messageType that is absent,
\* negative, known, or too large; a requestId or none; a version object that
\* is absent, complete, or lacks one of its three numbers.
RequestNext ==
    \/ \E messageType \in {<<>>} \cup {<<n>> : n \in {-4, -1, 568} \cup (0..Len(RequestTypes))},
          requestId \in {<<>>, <<0>>, <<6>>},
          version \in {<<>>} \cup
                      {<<[f \in fields |-> 2]>> :
                          fields \in {{FIELD.VERSION_MAJOR, FIELD.VERSION_MINOR,
                                       FIELD.VERSION_PATCH},
                                      {FIELD.VERSION_MAJOR, FIELD.VERSION_PATCH}}} :
          ReceiveDocument(messageType, requestId, version)
    \/ ParseRequest

(***************************************************************************)
(* system/Process.cpp: the argument vector of the sandbox helper           *)
(*                                                                         *)
(* A text is a sequence of pieces; the single quote is a piece of its own. *)
(* An empty FilePath or string is the empty sequence. RunAsUser is the     *)
(* name of the user: "*" for all users, empty for the empty user.          *)
(***************************************************************************)
\* escape: every single quote becomes '"'"' and the whole is put between
\* single quotes.
escape(arg) ==
    LET RECURSIVE Replaced(_)
        Replaced(text) ==
            IF text = <<>> THEN <<>>
            ELSE (IF Head(text) = "'" THEN <<"'", "\"", "'", "\"", "'">> ELSE <<Head(text)>>)
                 \o Replaced(Tail(text))
    IN <<"'">> \o Replaced(arg) \o <<"'">>

\* createSandboxArguments: what it appends to Arguments. The shell command
\* is assembled first; then come the flags of the user, the working
\* directory and the PAM profile, one --mount pair for every mount with a
\* host source, and /bin/sh -c with the shell command.
createSandboxArguments(opts) ==
    LET RECURSIVE WithArgs(_, _)
        WithArgs(cmd, args) ==
            IF args = <<>> THEN cmd
            ELSE WithArgs(cmd \o <<" ">> \o escape(Head(args)), Tail(args))
        RECURSIVE MountArgs(_)
        MountArgs(mounts) ==
            IF mounts = <<>> THEN <<>>
            ELSE (IF Head(mounts).HostSourcePath # <<>>
                  THEN << <<"--mount">>,
                          escape(Head(mounts).HostSourcePath[1] \o <<":">>
                                 \o Head(mounts).DestinationPath
                                 \o (IF Head(mounts).IsReadOnly THEN <<":ro">> ELSE <<>>)) >>
                  ELSE <<>>)
                 \o MountArgs(Tail(mounts))
        redirectStdout == opts.StandardOutputFile # <<>>
        redirectStderr == opts.StandardErrorFile # <<>>
        redirectToSame == redirectStdout /\ redirectStderr
                          /\ (opts.StandardOutputFile = opts.StandardErrorFile)
        cmd1 == WithArgs(opts.Executable, opts.Arguments)
        cmd2 == IF opts.IsShellCommand /\ (redirectStdout \/ redirectStderr)
                THEN <<"(">> \o cmd1 \o <<")">> ELSE cmd1
        cmd3 == IF redirectStdout
                THEN cmd2 \o <<" > ">> \o escape(opts.StandardOutputFile) ELSE cmd2
        shellCommand == IF redirectToSame THEN cmd3 \o <<" 2>&1">>
                        ELSE IF redirectStderr
                             THEN cmd3 \o <<" 2> ">> \o escape(opts.StandardErrorFile)
                             ELSE cmd3
    IN (IF (opts.RunAsUser # <<"*">>) /\ (opts.RunAsUser # <<"*">>)
        THEN << <<"--username">>, opts.RunAsUser >> ELSE <<>>)
       \o (IF opts.WorkingDirectory # <<>>
           THEN << <<"--workingdir">>, opts.WorkingDirectory >> ELSE <<>>)
       \o (IF opts.PamProfile # <<>>
           THEN << <<"--pam-profile">>, opts.PamProfile >> ELSE <<>>)
       \o MountArgs(opts.Mounts)
       \o << <<"/bin/sh">>, <<"-c">>, shellCommand >>

\* options::Options::getInstance().getRSandboxPath().getAbsolutePath()
RSandbox == <<"/usr/lib/rstudio-server/bin/rsandbox">>

\* The process options of the model: three users, a working directory and a
\* PAM profile given or not, up to two mounts of three kinds (one has a quote
\* in its host path, one has no host source), an argument with a quote or
\* none, and the redirections of the two output streams.
ProcessOptions ==
    LET Mount == {[HostSourcePath |-> << <<"/host">> >>, DestinationPath |-> <<"/dest">>,
                   IsReadOnly |-> FALSE],
                  [HostSourcePath |-> << <<"/ho", "'", "st">> >>, DestinationPath |-> <<"/dest">>,
                   IsReadOnly |-> TRUE],
                  [HostSourcePath |-> <<>>, DestinationPath |-> <<"/nfs">>,
                   IsReadOnly |-> FALSE]}
    IN [RunAsUser : {<<"*">>, <<>>, <<"user2">>},
        WorkingDirectory : {<<>>, <<"/work">>},
        PamProfile : {<<>>, <<"su">>},
        Mounts : UNION {[1..n -> Mount] : n \in 0..2},
        Executable : {<<"/bin/echo">>},
        Arguments : {<<>>, << <<"it", "'", "s">> >>},
        StandardOutputFile : {<<>>, <<"/out">>},
        StandardErrorFile : {<<>>, <<"/out">>, <<"/err">>},
        IsShellCommand : BOOLEAN]

\* Impl::Impl: Arguments.push_back(RSandbox); createEnvironmentVars;
\* createLaunchProfile, which writes context.username; createSandboxArguments.
ConstructImpl ==
    /\ ipc = "idle"
    /\ \E opts \in ProcessOptions :
          /\ in_options' = opts
          /\ contextUsername' = IF (opts.RunAsUser = <<"*">>) \/ (opts.RunAsUser = <<>>)
                                THEN <<>> ELSE opts.RunAsUser
          /\ Arguments' = <<RSandbox>> \o createSandboxArguments(opts)
    /\ ipc' = "constructed"
    /\ UNCHANGED <<responseVars, launchVars, syncVars, logVars,
                   cipc, ciCtor, ciArgs, ciImpl, ciJson, rqpc, rqDoc, rqResult>>

\* The variables of the cluster information response, of the request
\* parser and of the constructor of Impl, while none is exercised.
NoDocuments ==
    /\ cipc = "idle"
    /\ ciCtor = "none"
    /\ ciArgs = [defaultImage |-> ""]
    /\ ciImpl = [ResponseType |-> "none"]
    /\ ciJson = <<>>
    /\ rqpc = "idle"
    /\ rqDoc = <<>>
    /\ rqResult = [failed |-> FALSE, text |-> <<>>, log |-> <<>>, request |-> NoRequest]
    /\ ipc = "idle"
    /\ in_options = [RunAsUser |-> <<>>]
    /\ Arguments = <<>>
    /\ contextUsername = <<>>

\* The variables of the parts that are functions of their arguments, while
\* none of them is exercised.
NoData ==
    /\ lpc = "idle"
    /\ password = <<>>
    /\ StandardInput = <<>>
    /\ startPos1 = 0
    /\ startPos2 = 0
    /\ wasEmpty = TRUE
    /\ scanParity = 0
    /\ logged = <<>>
    /\ NoDocuments

parentVars == <<ppc, pfd, fds, forkPid, openFds, sent, sendError, sendResult, runResult, Pid>>
childVars == <<cpc, cfd, cerrno, fdsRead, readError, loopParity, childOps, childEnd>>

(***************************************************************************)
(* AbstractChildProcess::run, the parent's side                            *)
(***************************************************************************)
\* getFilesLimit(softLimit, hardLimit); on an error run() returns it.
GetFilesLimit ==
    /\ ppc = "start"
    /\ \/ /\ ppc' = "pipes"
          /\ UNCHANGED runResult
       \/ /\ ppc' = "returned"
          /\ runResult' = "getrlimit_error"
    /\ UNCHANGED <<pfd, fds, forkPid, openFds, sent, sendError, sendResult, Pid>>
    /\ UNCHANGED <<childVars, hardLimit, softLimit, inherited, ctl, termLog, responseVars, syncVars, dataVars>>

\* createPipes: four ::pipe calls; when the call number failAt fails, the
\* pairs created before it are closed and the error is returned (failAt = 0:
\* no call fails).
CreatePipes(failAt) ==
    /\ ppc = "pipes"
    /\ LET p1 == PipePair(pfd)
           p2 == PipePair(pfd \cup {p1[1], p1[2]})
           p3 == PipePair(pfd \cup {p1[1], p1[2], p2[1], p2[2]})
           p4 == PipePair(pfd \cup {p1[1], p1[2], p2[1], p2[2], p3[1], p3[2]})
       IN /\ fds' = [Input   |-> IF failAt = 1 THEN NoPipe ELSE p1,
                     Output  |-> IF failAt \in {1, 2} THEN NoPipe ELSE p2,
                     Error   |-> IF failAt \in {1, 2, 3} THEN NoPipe ELSE p3,
                     CloseFd |-> IF failAt \in {1, 2, 3, 4} THEN NoPipe ELSE p4]
          /\ pfd' = IF failAt = 0
                    THEN pfd \cup {p1[1], p1[2], p2[1], p2[2], p3[1], p3[2], p4[1], p4[2]}
                    ELSE pfd
    /\ IF failAt = 0
       THEN ppc' = "fork" /\ UNCHANGED runResult
       ELSE ppc' = "returned" /\ runResult' = "pipe_error"
    /\ UNCHANGED <<forkPid, openFds, sent, sendError, sendResult, Pid>>
    /\ UNCHANGED <<childVars, hardLimit, softLimit, inherited, ctl, termLog, responseVars, syncVars, dataVars>>

\* posixCall<pid_t>(::fork, ERROR_LOCATION, &pid): the child is a copy of the
\* parent, descriptors and errno of the forking thread included. pid = -1
\* when fork fails; run() goes on into the branch of the parent then too.
Fork(pid) ==
    /\ ppc = "fork"
    /\ forkPid' = pid
    /\ ppc' = "parent_close"
    /\ IF pid = -1
       THEN UNCHANGED <<cpc, cfd, inherited>>
       ELSE /\ cpc' = "args"
            /\ cfd' = pfd
            /\ inherited' = pfd
    /\ UNCHANGED <<pfd, fds, openFds, sent, sendError, sendResult, runResult, Pid>>
    /\ UNCHANGED <<cerrno, fdsRead, readError, loopParity, childOps, childEnd>>
    /\ UNCHANGED <<hardLimit, softLimit, ctl, termLog, responseVars, syncVars, dataVars>>

\* The parent closes the four pipe ends it does not use and saves the other
\* three data ends. m_baseImpl->Pid is not assigned, here or elsewhere.
ParentCloseUnused ==
    /\ ppc = "parent_close"
    /\ pfd' = pfd \ {ReadEnd(fds.Input), WriteEnd(fds.Output),
                     WriteEnd(fds.Error), ReadEnd(fds.CloseFd)}
    /\ ppc' = "scan"
    /\ UNCHANGED <<fds, forkPid, openFds, sent, sendError, sendResult, runResult, Pid>>
    /\ UNCHANGED <<childVars, hardLimit, softLimit, inherited, ctl, termLog, responseVars, syncVars, dataVars>>

\* sendFileDescriptors: getOpenFds(in_childPid, openFds). It lists the
\* descriptors the child holds at this moment; when the directory cannot be
\* scanned (always so for pid -1) the error is logged and kept in `error`.
GetOpenFds ==
    /\ ppc = "scan"
    /\ \/ /\ forkPid # -1
          /\ openFds' = ScandirOrder(cfd)
          /\ sendError' = "Success"
       \/ /\ openFds' = <<>>
          /\ sendError' = "scandir_error"
    /\ sent' = 0
    /\ ppc' = "write_list"
    /\ UNCHANGED <<pfd, fds, forkPid, sendResult, runResult, Pid>>
    /\ UNCHANGED <<childVars, hardLimit, softLimit, inherited, ctl, termLog, responseVars, syncVars, dataVars>>

\* sendFileDescriptors: one ::write of the loop over openFds. A failed write
\* returns its error at once; no sentinel follows.
WriteFd ==
    /\ ppc = "write_list"
    /\ sent < Len(openFds)
    /\ \/ /\ CtlReaderOpen
          /\ ctl' = Append(ctl, openFds[sent + 1])
          /\ sent' = sent + 1
          /\ sendError' = "Success"
          /\ UNCHANGED <<ppc, sendResult>>
       \/ /\ sendError' = "write_error"
          /\ sendResult' = "write_error"
          /\ ppc' = "close_ctl"
          /\ UNCHANGED <<ctl, sent>>
    /\ UNCHANGED <<pfd, fds, forkPid, openFds, runResult, Pid>>
    /\ UNCHANGED <<childVars, hardLimit, softLimit, inherited, termLog, responseVars, syncVars, dataVars>>

\* sendFileDescriptors: the ::write of streamEnd = -1. When it fails the
\* function returns `error`, the outcome of the calls before it, and not
\* lastWriteError.
WriteSentinel ==
    /\ ppc = "write_list"
    /\ sent = Len(openFds)
    /\ \/ /\ CtlReaderOpen
          /\ ctl' = Append(ctl, -1)
          /\ sendResult' = "Success"
       \/ /\ sendResult' = sendError
          /\ UNCHANGED ctl
    /\ ppc' = "close_ctl"
    /\ UNCHANGED <<pfd, fds, forkPid, openFds, sent, sendError, runResult, Pid>>
    /\ UNCHANGED <<childVars, hardLimit, softLimit, inherited, termLog, responseVars, syncVars, dataVars>>

CloseCtlAndReturn_LeavesOpen ==
    /\ ppc = "close_ctl"
    /\ runResult' = sendResult
    /\ ppc' = "returned"
    /\ UNCHANGED <<pfd, fds, forkPid, openFds, sent, sendError, sendResult, Pid>>
    /\ UNCHANGED <<childVars, hardLimit, softLimit, inherited, ctl, termLog, responseVars, syncVars, dataVars>>

\* closePipe(fds.CloseFd[s_writePipe]); return error;
CloseCtlAndReturn ==
    /\ ppc = "close_ctl"
    /\ pfd' = pfd \ {WriteEnd(fds.CloseFd)}
    /\ runResult' = sendResult
    /\ ppc' = "returned"
    /\ UNCHANGED <<fds, forkPid, openFds, sent, sendError, sendResult, Pid>>
    /\ UNCHANGED <<childVars, hardLimit, softLimit, inherited, ctl, termLog, responseVars, syncVars, dataVars>>

\* The parent process dies after the fork, before run() has returned: the
\* kernel closes its descriptors.
ParentDies ==
    /\ ppc \in {"parent_close", "scan", "write_list", "close_ctl"}
    /\ forkPid # -1
    /\ ppc' = "dead"
    /\ pfd' = {}
    /\ UNCHANGED <<fds, forkPid, openFds, sent, sendError, sendResult, runResult, Pid>>
    /\ UNCHANGED <<childVars, hardLimit, softLimit, inherited, ctl, termLog, responseVars, syncVars, dataVars>>

(***************************************************************************)
(* The child: the branch pid == 0 of run(), then Impl::execChild           *)
(***************************************************************************)
\* The record of what the child did: consecutive repetitions of one operation
\* are kept once.
RECURSIVE Did(_, _)
Did(ops, new) ==
    IF new = <<>> THEN ops
    ELSE Did(IF ops # <<>> /\ ops[Len(ops)] = Head(new) THEN ops ELSE Append(ops, Head(new)),
             Tail(new))

\* The child's run of this program's code ends: by ::exit, by ::_exit, or
\* because exec replaced the image.
ChildEnds(how, ops) ==
    /\ childOps' = Did(childOps, ops)
    /\ childEnd' = [how |-> how, code |-> s_threadSafeExitError]
    /\ cpc' = "exited"
    /\ cfd' = {}

\* run(): the arguments of the call of execChild are evaluated in the child:
\* CStringList(m_baseImpl->Arguments) and CStringList(m_baseImpl->Environment),
\* whose setData allocates with new[].
ChildBuildsArgv ==
    /\ cpc = "args"
    /\ childOps' = Did(childOps, <<"new">>)
    /\ cpc' = "setpgid"
    /\ UNCHANGED <<cfd, cerrno, fdsRead, readError, loopParity, childEnd>>
    /\ UNCHANGED <<parentVars, hardLimit, softLimit, inherited, ctl, termLog, responseVars, syncVars, dataVars>>

\* if (::setpgid(0, 0) == -1) ::exit(s_threadSafeExitError);
ChildSetpgid ==
    /\ cpc = "setpgid"
    /\ \/ /\ childOps' = Did(childOps, <<"setpgid">>)
          /\ cpc' = "sigmask"
          /\ UNCHANGED <<cfd, childEnd>>
       \/ ChildEnds("exit", <<"setpgid", "exit">>)
    /\ UNCHANGED <<cerrno, fdsRead, readError, loopParity>>
    /\ UNCHANGED <<parentVars, hardLimit, softLimit, inherited, ctl, termLog, responseVars, syncVars, dataVars>>

ChildClearSignalMask_SkipsRedirection ==
    /\ cpc = "sigmask"
    /\ childOps' = Did(childOps, <<"pthread_sigmask">>)
    /\ cpc' = "read"
    /\ UNCHANGED <<cfd, childEnd, cerrno, fdsRead, readError, loopParity>>
    /\ UNCHANGED <<parentVars, hardLimit, softLimit, inherited, ctl, termLog, responseVars, syncVars, dataVars>>

\* if (clearSignalMask() != 0) ::exit(s_threadSafeExitError);
ChildClearSignalMask ==
    /\ cpc = "sigmask"
    /\ \/ /\ childOps' = Did(childOps, <<"pthread_sigmask">>)
          /\ cpc' = "close_unused"
          /\ UNCHANGED <<cfd, childEnd>>
       \/ ChildEnds("exit", <<"pthread_sigmask", "exit">>)
    /\ UNCHANGED <<cerrno, fdsRead, readError, loopParity>>
    /\ UNCHANGED <<parentVars, hardLimit, softLimit, inherited, ctl, termLog, responseVars, syncVars, dataVars>>

\* The four ::close calls of the pipe ends the child does not use.
ChildCloseUnused ==
    /\ cpc = "close_unused"
    /\ cfd' = cfd \ {WriteEnd(fds.Input), ReadEnd(fds.Output),
                     ReadEnd(fds.Error), WriteEnd(fds.CloseFd)}
    /\ childOps' = Did(childOps, <<"close">>)
    /\ cpc' = "dup_in"
    /\ UNCHANGED <<cerrno, fdsRead, readError, loopParity, childEnd>>
    /\ UNCHANGED <<parentVars, hardLimit, softLimit, inherited, ctl, termLog, responseVars, syncVars, dataVars>>

\* One of the three ::dup2 calls onto STDIN_FILENO, STDOUT_FILENO and
\* STDERR_FILENO; if (result == -1) ::_exit(s_threadSafeExitError);
ChildDup2(at, next) ==
    /\ cpc = at
    /\ \/ /\ childOps' = Did(childOps, <<"dup2">>)
          /\ cpc' = next
          /\ UNCHANGED <<cfd, childEnd>>
       \/ ChildEnds("_exit", <<"dup2", "_exit">>)
    /\ UNCHANGED <<cerrno, fdsRead, readError, loopParity>>
    /\ UNCHANGED <<parentVars, hardLimit, softLimit, inherited, ctl, termLog, responseVars, syncVars, dataVars>>

\* closeParentFds: ::read returns 4 bytes. The sentinel ends the loop; any
\* other value sets fdsRead and is closed when ShouldClose says so. closeFd
\* leaves errno at EBADF when the descriptor is not open.
ChildReadsValue ==
    /\ cpc = "read"
    /\ ctl # <<>>
    /\ ctl' = Tail(ctl)
    /\ childOps' = Did(childOps, <<"read">>)
    /\ LET buffer == Head(ctl)
       IN IF buffer = -1
          THEN /\ cpc' = "after_loop"
               /\ UNCHANGED <<cfd, cerrno, fdsRead>>
          ELSE /\ fdsRead' = TRUE
               /\ cpc' = "read"
               /\ IF ShouldClose(buffer, hardLimit, ReadEnd(fds.CloseFd))
                  THEN /\ cfd' = cfd \ {buffer}
                       /\ cerrno' = IF buffer \in cfd THEN cerrno ELSE "EBADF"
                  ELSE UNCHANGED <<cfd, cerrno>>
    /\ UNCHANGED <<readError, loopParity, childEnd>>
    /\ UNCHANGED <<parentVars, hardLimit, softLimit, inherited, termLog, responseVars, syncVars, dataVars>>

\* closeParentFds: ::read returns 0, the pipe being empty with no write end
\* left open. read does not set errno then: the test of errno sees the value
\* an earlier call left.
ChildReadsEof ==
    /\ cpc = "read"
    /\ ctl = <<>>
    /\ ~CtlWriterOpen
    /\ childOps' = Did(childOps, <<"read">>)
    /\ IF RetriesRead(cerrno)
       THEN /\ loopParity' = 1 - loopParity
            /\ UNCHANGED <<cpc, readError>>
       ELSE /\ readError' = TRUE
            /\ cpc' = "after_loop"
            /\ UNCHANGED loopParity
    /\ UNCHANGED <<cfd, cerrno, fdsRead, childEnd>>
    /\ UNCHANGED <<parentVars, hardLimit, softLimit, inherited, ctl, termLog, responseVars, syncVars, dataVars>>

\* closeParentFds: ::read blocks on the empty pipe and a signal interrupts it:
\* it returns -1 with errno EINTR and the loop continues.
ChildReadInterrupted ==
    /\ cpc = "read"
    /\ ctl = <<>>
    /\ CtlWriterOpen
    /\ cerrno # "EINTR"
    /\ cerrno' = "EINTR"
    /\ childOps' = Did(childOps, <<"read">>)
    /\ UNCHANGED <<cpc, cfd, fdsRead, readError, loopParity, childEnd>>
    /\ UNCHANGED <<parentVars, hardLimit, softLimit, inherited, ctl, termLog, responseVars, syncVars, dataVars>>

\* closeParentFds: ::read returns -1 with an errno other than EINTR and EAGAIN.
ChildReadFails ==
    /\ cpc = "read"
    /\ cerrno' = "EBADF"
    /\ readError' = TRUE
    /\ childOps' = Did(childOps, <<"read">>)
    /\ cpc' = "after_loop"
    /\ UNCHANGED <<cfd, fdsRead, loopParity, childEnd>>
    /\ UNCHANGED <<parentVars, hardLimit, softLimit, inherited, ctl, termLog, responseVars, syncVars, dataVars>>

\* closeParentFds: if (error || !fdsRead) the sweep closes every number from
\* startFd up to the maximum, the pipe's own excepted.
ChildAfterLoop ==
    /\ cpc = "after_loop"
    /\ IF readError \/ ~fdsRead
       THEN /\ cfd' = cfd \ SweepClosed(cfd, hardLimit, ReadEnd(fds.CloseFd))
            /\ childOps' = Did(childOps, <<"close">>)
       ELSE UNCHANGED <<cfd, childOps>>
    /\ cpc' = "close_ctl"
    /\ UNCHANGED <<cerrno, fdsRead, readError, loopParity, childEnd>>
    /\ UNCHANGED <<parentVars, hardLimit, softLimit, inherited, ctl, termLog, responseVars, syncVars, dataVars>>

\* ::close(in_fds.CloseFd[s_readPipe]);
ChildCloseCtl ==
    /\ cpc = "close_ctl"
    /\ cfd' = cfd \ {ReadEnd(fds.CloseFd)}
    /\ childOps' = Did(childOps, <<"close">>)
    /\ cpc' = "exec"
    /\ UNCHANGED <<cerrno, fdsRead, readError, loopParity, childEnd>>
    /\ UNCHANGED <<parentVars, hardLimit, softLimit, inherited, ctl, termLog, responseVars, syncVars, dataVars>>

ChildExec_ReturnsOnFailure ==
    /\ cpc = "exec"
    /\ \/ /\ childOps' = Did(childOps, <<"exec">>)
          /\ childEnd' = [how |-> "exec", code |-> 0]
          /\ cpc' = "execed"
          /\ UNCHANGED cfd
       \/ /\ childOps' = Did(childOps, <<"exec", "return">>)
          /\ childEnd' = [how |-> "return", code |-> 0]
          /\ cpc' = "returned"
          /\ UNCHANGED cfd
    /\ UNCHANGED <<cerrno, fdsRead, readError, loopParity>>
    /\ UNCHANGED <<parentVars, hardLimit, softLimit, inherited, ctl, termLog, responseVars, syncVars, dataVars>>

\* ::execv or ::execve; when the call returns, ::_exit(s_threadSafeExitError).
ChildExec ==
    /\ cpc = "exec"
    /\ \/ /\ childOps' = Did(childOps, <<"exec">>)
          /\ childEnd' = [how |-> "exec", code |-> 0]
          /\ cpc' = "execed"
          /\ UNCHANGED cfd
       \/ ChildEnds("_exit", <<"exec", "_exit">>)
    /\ UNCHANGED <<cerrno, fdsRead, readError, loopParity>>
    /\ UNCHANGED <<parentVars, hardLimit, softLimit, inherited, ctl, termLog, responseVars, syncVars, dataVars>>

\* The sandbox helper the child became runs to its end.
ChildProgramExits ==
    /\ cpc = "execed"
    /\ cpc' = "finished"
    /\ cfd' = {}
    /\ UNCHANGED <<cerrno, fdsRead, readError, loopParity, childOps, childEnd>>
    /\ UNCHANGED <<parentVars, hardLimit, softLimit, inherited, ctl, termLog, responseVars, syncVars, dataVars>>

(***************************************************************************)
(* AbstractChildProcess::terminate                                         *)
(***************************************************************************)
\* What ::kill reports: "OK" for 0, else the errno it fails with.
KillResults == {"OK", "EPERM", "ESRCH", "EINVAL"}

KillErrnoIgnored_OnlyEsrch(e) == e = "ESRCH"

\* if ((errno == EPERM) || (errno == ESRCH)) return Success();
KillErrnoIgnored(e) == (e = "EPERM") \/ (e = "ESRCH")

\* if (m_baseImpl->Pid == -1) return systemError(ESRCH, ERROR_LOCATION);
\* ::kill is not called then.
TerminateCallsKill(pid) == pid # -1

\* ::kill(-m_baseImpl->Pid, SIGTERM)
KillTarget(pid) == -pid

\* The Error terminate() returns, for the Pid of the instance and for what
\* ::kill reports when it is called.
TerminateResult(pid, killResult) ==
    IF ~TerminateCallsKill(pid) THEN "ESRCH"
    ELSE IF killResult = "OK" THEN "Success"
    ELSE IF KillErrnoIgnored(killResult) THEN "Success"
    ELSE killResult

\* What one call of terminate() does: whether run() had returned success,
\* whether the child had exited, where SyncChildProcess::run stood, who
\* called, and what the call did.
TerminateEntry(killResult, caller) ==
    [launched    |-> runResult = "Success",
     childExited |-> cpc \in {"exited", "finished"},
     childPid    |-> forkPid,
     syncAt      |-> spc,
     caller      |-> caller,
     killed      |-> TerminateCallsKill(Pid),
     signal      |-> IF TerminateCallsKill(Pid) THEN "SIGTERM" ELSE "none",
     target      |-> IF TerminateCallsKill(Pid) THEN KillTarget(Pid) ELSE 0,
     killResult  |-> IF TerminateCallsKill(Pid) THEN killResult ELSE "not_called",
     result      |-> TerminateResult(Pid, killResult)]

\* A call of terminate() from a thread other than the one inside run().
Terminate(killResult, maxCalls) ==
    /\ ppc # "dead"
    /\ Len(termLog) < maxCalls
    /\ termLog' = Append(termLog, TerminateEntry(killResult, "thread"))
    /\ UNCHANGED <<parentVars, childVars, hardLimit, softLimit, inherited, ctl, responseVars, syncVars, dataVars>>

LaunchNext ==
    \/ GetFilesLimit
    \/ \E failAt \in 0..4 : CreatePipes(failAt)
    \/ \E pid \in ChildPids \cup {-1} : Fork(pid)
    \/ ParentCloseUnused
    \/ GetOpenFds
    \/ WriteFd
    \/ WriteSentinel
    \/ CloseCtlAndReturn
    \/ ParentDies
    \/ ChildBuildsArgv
    \/ ChildSetpgid
    \/ ChildClearSignalMask
    \/ ChildCloseUnused
    \/ ChildDup2("dup_in", "dup_out")
    \/ ChildDup2("dup_out", "dup_err")
    \/ ChildDup2("dup_err", "read")
    \/ ChildReadsValue
    \/ ChildReadsEof
    \/ ChildReadInterrupted
    \/ ChildReadFails
    \/ ChildAfterLoop
    \/ ChildCloseCtl
    \/ ChildExec
    \/ ChildProgramExits
    \/ \E killResult \in KillResults : Terminate(killResult, MaxTerminateCalls)

\* The steps the child takes on its own; the scheduler runs the child as long
\* as it has a step to take.
ChildStep ==
    \/ ChildBuildsArgv
    \/ ChildSetpgid
    \/ ChildClearSignalMask
    \/ ChildCloseUnused
    \/ ChildDup2("dup_in", "dup_out")
    \/ ChildDup2("dup_out", "dup_err")
    \/ ChildDup2("dup_err", "read")
    \/ ChildReadsValue
    \/ ChildReadsEof
    \/ ChildAfterLoop
    \/ ChildCloseCtl
    \/ ChildExec

\* The steps of the parent thread inside run().
ParentStep ==
    \/ GetFilesLimit
    \/ \E failAt \in 0..4 : CreatePipes(failAt)
    \/ \E pid \in ChildPids \cup {-1} : Fork(pid)
    \/ ParentCloseUnused
    \/ GetOpenFds
    \/ WriteFd
    \/ WriteSentinel
    \/ CloseCtlAndReturn

TerminateNext ==
    \E killResult \in KillResults : Terminate(killResult, MaxTerminateAlone)

(***************************************************************************)
(* Specifications                                                          *)
(***************************************************************************)
ResponseOnlyInit == ResponseInit /\ NoLaunch /\ NoSync /\ NoData /\ Pid = -1

\* The response-id counter under concurrent construction.
SpecResponse == ResponseOnlyInit /\ [][ResponseNext]_vars

Init == LaunchInit /\ ResponseInit /\ NoSync /\ NoData

\* One launch: run() in the parent, the child up to exec, terminate().
Spec == Init /\ [][LaunchNext]_vars

\* A launch without calls of terminate().
RunNext ==
    \/ ParentStep
    \/ ParentDies
    \/ ChildStep
    \/ ChildReadInterrupted
    \/ ChildReadFails
    \/ ChildProgramExits

\* A launch in which the child is scheduled: it does not stop while it has a
\* step to take.
SpecFair ==
    /\ Init
    /\ [][RunNext]_vars
    /\ WF_vars(ChildStep)
    /\ WF_vars(WriteFd \/ WriteSentinel \/ CloseCtlAndReturn)

\* terminate() on its own, for every value the Pid field can hold.  run()
\* leaves the field at -1, so after a launch only the first branch of
\* terminate() is taken; here the field is an input of the function, drawn
\* from InstancePids, so that the branch calling kill is exercised as well.
TerminateOnlyInit == ResponseInit /\ NoLaunch /\ NoSync /\ NoData /\ Pid \in InstancePids

\* terminate() on its own, as a function of the Pid of the instance and of
\* what ::kill reports.
SpecTerminate == TerminateOnlyInit /\ [][TerminateNext]_vars

(***************************************************************************)
(* The program the child runs after exec, and the other children of the    *)
(* parent process                                                          *)
(***************************************************************************)
\* Units a pipe buffers before a ::write to it blocks.
PipeCapacity == 1
\* Largest StandardInput, in units.
MaxInput == 2
\* Largest amount the program writes to one of its output streams, in units.
MaxOutput == 2

\* The child process exists and has not exited: it holds its ends of the
\* three data pipes, as descriptors 0, 1 and 2 from the dup2 calls on.
ChildAlive == cpc \notin {"none", "exited", "finished"}

\* The program reads one unit of its standard input.
ProgramReadsStdin ==
    /\ cpc = "execed"
    /\ inPipe > 0
    /\ inPipe' = inPipe - 1
    /\ UNCHANGED <<spc, stdInput, inWritten, outPipe, errPipe, prog, otherChild, reaped,
                   out_result, syncError, syncResult, syncOps>>
    /\ UNCHANGED <<launchVars, responseVars, dataVars>>

\* The program reads end of file on its standard input, every write end of
\* that pipe being closed; it goes on to write what it has to write.
ProgramReadsEof ==
    /\ cpc = "execed"
    /\ inPipe = 0
    /\ WriteEnd(fds.Input) \notin (pfd \cup cfd)
    /\ cpc' = "writing"
    /\ \E o \in 0..MaxOutput, e \in 0..MaxOutput :
          prog' = [prog EXCEPT !.outLeft = o, !.errLeft = e, !.out = o, !.err = e]
    /\ UNCHANGED <<ppc, pfd, cfd, fds, hardLimit, softLimit, forkPid, inherited, openFds, sent, sendError,
                   sendResult, runResult, ctl, cerrno, fdsRead, readError, loopParity,
                   childOps, childEnd, Pid, termLog>>
    /\ UNCHANGED <<spc, stdInput, inWritten, inPipe, outPipe, errPipe, otherChild, reaped,
                   out_result, syncError, syncResult, syncOps>>
    /\ UNCHANGED <<responseVars, dataVars>>

\* The program writes one unit to its standard output; the write blocks
\* while the pipe is full.
ProgramWritesOut ==
    /\ cpc = "writing"
    /\ prog.outLeft > 0
    /\ outPipe < PipeCapacity
    /\ outPipe' = outPipe + 1
    /\ prog' = [prog EXCEPT !.outLeft = @ - 1]
    /\ UNCHANGED <<spc, stdInput, inWritten, inPipe, errPipe, otherChild, reaped,
                   out_result, syncError, syncResult, syncOps>>
    /\ UNCHANGED <<launchVars, responseVars, dataVars>>

\* The program writes one unit to its standard error.
ProgramWritesErr ==
    /\ cpc = "writing"
    /\ prog.errLeft > 0
    /\ errPipe < PipeCapacity
    /\ errPipe' = errPipe + 1
    /\ prog' = [prog EXCEPT !.errLeft = @ - 1]
    /\ UNCHANGED <<spc, stdInput, inWritten, inPipe, outPipe, otherChild, reaped,
                   out_result, syncError, syncResult, syncOps>>
    /\ UNCHANGED <<launchVars, responseVars, dataVars>>

\* The program has written everything and exits with a status.
ProgramExits(status) ==
    /\ cpc = "writing"
    /\ prog.outLeft = 0
    /\ prog.errLeft = 0
    /\ cpc' = "finished"
    /\ cfd' = {}
    /\ prog' = [prog EXCEPT !.status = status]
    /\ UNCHANGED <<ppc, pfd, fds, hardLimit, softLimit, forkPid, inherited, openFds, sent, sendError,
                   sendResult, runResult, ctl, cerrno, fdsRead, readError, loopParity,
                   childOps, childEnd, Pid, termLog>>
    /\ UNCHANGED <<spc, stdInput, inWritten, inPipe, outPipe, errPipe, otherChild, reaped,
                   out_result, syncError, syncResult, syncOps>>
    /\ UNCHANGED <<responseVars, dataVars>>

\* The other child of the parent process exits.
OtherChildExits ==
    /\ otherChild = "running"
    /\ otherChild' = "zombie"
    /\ UNCHANGED <<spc, stdInput, inWritten, inPipe, outPipe, errPipe, prog, reaped,
                   out_result, syncError, syncResult, syncOps>>
    /\ UNCHANGED <<launchVars, responseVars, dataVars>>

(***************************************************************************)
(* SyncChildProcess::run                                                   *)
(***************************************************************************)
\* Error error = AbstractChildProcess::run(); if (error) return error;
SyncAfterLaunch ==
    /\ spc = "launch"
    /\ ppc = "returned"
    /\ IF runResult # "Success"
       THEN /\ spc' = "returned"
            /\ syncResult' = runResult
       ELSE /\ spc' = "write_in"
            /\ UNCHANGED syncResult
    /\ UNCHANGED <<stdInput, inWritten, inPipe, outPipe, errPipe, prog, otherChild, reaped,
                   out_result, syncError, syncOps>>
    /\ UNCHANGED <<launchVars, responseVars, dataVars>>

\* writeToPipe: the ::write moves one more unit of StandardInput into the
\* pipe; it blocks while the pipe is full.
SyncWriteProgress ==
    /\ spc = "write_in"
    /\ inWritten < stdInput
    /\ inPipe < PipeCapacity
    /\ ChildAlive \/ (ReadEnd(fds.Input) \in pfd)
    /\ inWritten' = inWritten + 1
    /\ inPipe' = inPipe + 1
    /\ UNCHANGED <<spc, stdInput, outPipe, errPipe, prog, otherChild, reaped,
                   out_result, syncError, syncResult, syncOps>>
    /\ UNCHANGED <<launchVars, responseVars, dataVars>>

\* writeToPipe: the ::write returns in_data.length(); closePipe(in_fd) since
\* in_eof is true; Success.
SyncWriteDone ==
    /\ spc = "write_in"
    /\ inWritten = stdInput
    /\ pfd' = pfd \ {WriteEnd(fds.Input)}
    /\ syncOps' = Append(syncOps, "write")
    /\ spc' = "read_out"
    /\ UNCHANGED <<ppc, cpc, cfd, fds, hardLimit, softLimit, forkPid, inherited, openFds, sent, sendError,
                   sendResult, runResult, ctl, cerrno, fdsRead, readError, loopParity,
                   childOps, childEnd, Pid, termLog>>
    /\ UNCHANGED <<stdInput, inWritten, inPipe, outPipe, errPipe, prog, otherChild, reaped,
                   out_result, syncError, syncResult>>
    /\ UNCHANGED <<responseVars, dataVars>>

\* writeToPipe: the ::write returns fewer bytes than asked, a signal having
\* interrupted it: closePipe(in_fd), then the io_error is returned.
SyncWriteShort ==
    /\ spc = "write_in"
    /\ inWritten > 0
    /\ inWritten < stdInput
    /\ pfd' = pfd \ {WriteEnd(fds.Input)}
    /\ syncError' = "io_error"
    /\ syncOps' = Append(syncOps, "write_failed")
    /\ spc' = "terminate"
    /\ UNCHANGED <<ppc, cpc, cfd, fds, hardLimit, softLimit, forkPid, inherited, openFds, sent, sendError,
                   sendResult, runResult, ctl, cerrno, fdsRead, readError, loopParity,
                   childOps, childEnd, Pid, termLog>>
    /\ UNCHANGED <<stdInput, inWritten, inPipe, outPipe, errPipe, prog, otherChild, reaped,
                   out_result, syncResult>>
    /\ UNCHANGED <<responseVars, dataVars>>

\* writeToPipe: the ::write fails (EPIPE when the child is gone, or another
\* errno): the error is returned at once, in_fd is left open.
SyncWriteFails ==
    /\ spc = "write_in"
    /\ inWritten = 0
    /\ syncError' = "write_error"
    /\ syncOps' = Append(syncOps, "write_failed")
    /\ spc' = "terminate"
    /\ UNCHANGED <<stdInput, inWritten, inPipe, outPipe, errPipe, prog, otherChild, reaped,
                   out_result, syncResult>>
    /\ UNCHANGED <<launchVars, responseVars, dataVars>>

SyncTerminate_ReturnsEarly ==
    /\ spc = "terminate"
    /\ \E killResult \in KillResults :
          termLog' = Append(termLog, TerminateEntry(killResult, "run"))
    /\ syncOps' = Append(syncOps, "terminate")
    /\ syncResult' = syncError
    /\ spc' = "returned"
    /\ UNCHANGED <<parentVars, childVars, hardLimit, softLimit, inherited, ctl>>
    /\ UNCHANGED <<stdInput, inWritten, inPipe, outPipe, errPipe, prog, otherChild, reaped,
                   out_result, syncError>>
    /\ UNCHANGED <<responseVars, dataVars>>

\* if (error) { Error terminateError = terminate(); ... logError } : the call
\* of terminate() after a failed write of the standard input. The reads that
\* follow are skipped, `error` being set.
SyncTerminate ==
    /\ spc = "terminate"
    /\ \E killResult \in KillResults :
          termLog' = Append(termLog, TerminateEntry(killResult, "run"))
    /\ syncOps' = Append(syncOps, "terminate")
    /\ spc' = "wait"
    /\ UNCHANGED <<parentVars, childVars, hardLimit, softLimit, inherited, ctl>>
    /\ UNCHANGED <<stdInput, inWritten, inPipe, outPipe, errPipe, prog, otherChild, reaped,
                   out_result, syncError, syncResult>>
    /\ UNCHANGED <<responseVars, dataVars>>

\* readFromPipe(StdOutFd, out_result.StdOut): one ::read of the loop. It
\* appends what it read; on end of file the function returns Success. The
\* read blocks while the pipe is empty and a write end is open.
SyncReadStdOut ==
    /\ spc = "read_out"
    /\ \/ /\ outPipe > 0
          /\ outPipe' = outPipe - 1
          /\ out_result' = [out_result EXCEPT !.StdOut = @ + 1]
          /\ UNCHANGED <<spc, syncError, syncOps>>
       \/ /\ outPipe = 0
          /\ ~(ChildAlive \/ (WriteEnd(fds.Output) \in pfd))
          /\ spc' = "read_err"
          /\ syncOps' = Append(syncOps, "read_out")
          /\ UNCHANGED <<outPipe, out_result, syncError>>
    /\ UNCHANGED <<stdInput, inWritten, inPipe, errPipe, prog, otherChild, reaped, syncResult>>
    /\ UNCHANGED <<launchVars, responseVars, dataVars>>

\* readFromPipe(StdErrFd, out_result.StdError), in the same way.
SyncReadStdErr ==
    /\ spc = "read_err"
    /\ \/ /\ errPipe > 0
          /\ errPipe' = errPipe - 1
          /\ out_result' = [out_result EXCEPT !.StdError = @ + 1]
          /\ UNCHANGED <<spc, syncError, syncOps>>
       \/ /\ errPipe = 0
          /\ ~(ChildAlive \/ (WriteEnd(fds.Error) \in pfd))
          /\ spc' = "wait"
          /\ syncOps' = Append(syncOps, "read_err")
          /\ UNCHANGED <<errPipe, out_result, syncError>>
    /\ UNCHANGED <<stdInput, inWritten, inPipe, outPipe, prog, otherChild, reaped, syncResult>>
    /\ UNCHANGED <<launchVars, responseVars, dataVars>>

\* readFromPipe: a ::read fails with an errno other than EAGAIN; the function
\* returns the error, and run() skips what is left to read.
SyncReadFails ==
    /\ spc \in {"read_out", "read_err"}
    /\ syncError' = "read_error"
    /\ syncOps' = Append(syncOps, "read_failed")
    /\ spc' = "wait"
    /\ UNCHANGED <<stdInput, inWritten, inPipe, outPipe, errPipe, prog, otherChild, reaped,
                   out_result, syncResult>>
    /\ UNCHANGED <<launchVars, responseVars, dataVars>>

\* ::waitpid(m_baseImpl->Pid, &status, 0), then the return of run(). The call
\* blocks while the children it waits for are all running. It reaps one that
\* has exited and ExitCode takes its status; without a child to wait for it
\* fails with ECHILD, ExitCode is -1 and run() returns Success. The value of
\* `error` is not returned.
SyncWait ==
    /\ spc = "wait"
    /\ LET \* ::waitpid with pid == -1 waits for any child of the calling
           \* process; with a pid above 0, for that child alone.
           waitsForOwn == (Pid = -1) \/ (Pid = forkPid)
           waitsForOther == Pid = -1
           \* The children the calling process has not waited for.
           hasOwn == (forkPid \notin {0, -1}) /\ (reaped # "own")
           hasOther == otherChild \in {"running", "zombie"}
       IN \/ /\ waitsForOwn /\ hasOwn
             /\ cpc \in {"exited", "finished"}
             /\ reaped' = "own"
             \* the status of ::exit or ::_exit before exec, or of the program
             /\ out_result' = [out_result EXCEPT !.ExitCode =
                                  IF cpc = "exited" THEN childEnd.code ELSE prog.status]
             /\ UNCHANGED otherChild
          \/ /\ waitsForOther
             /\ otherChild = "zombie"
             /\ reaped' = "other"
             /\ otherChild' = "reaped"
             \* the exit status of the other child
             /\ out_result' = [out_result EXCEPT !.ExitCode = 42]
          \/ /\ ~(waitsForOwn /\ hasOwn)
             /\ ~(waitsForOther /\ hasOther)
             /\ out_result' = [out_result EXCEPT !.ExitCode = -1]
             /\ UNCHANGED <<reaped, otherChild>>
    /\ syncOps' = Append(syncOps, "waitpid")
    /\ syncResult' = "Success"
    /\ spc' = "returned"
    /\ UNCHANGED <<stdInput, inWritten, inPipe, outPipe, errPipe, prog, syncError>>
    /\ UNCHANGED <<launchVars, responseVars, dataVars>>

\* The steps of the calling thread inside SyncChildProcess::run, after the
\* launch.
SyncStep ==
    \/ SyncAfterLaunch
    \/ SyncWriteProgress
    \/ SyncWriteDone
    \/ SyncTerminate
    \/ SyncReadStdOut
    \/ SyncReadStdErr
    \/ SyncWait

\* The steps of the program the child runs after exec.
ProgramStep ==
    \/ ProgramReadsStdin
    \/ ProgramReadsEof
    \/ ProgramWritesOut
    \/ ProgramWritesErr
    \/ \E status \in {0, 3} : ProgramExits(status)

\* A synchronous run: the launch, the child, the program it becomes, and the
\* rest of SyncChildProcess::run.
SyncOwnNext ==
    \/ ParentStep
    \/ ChildStep
    \/ ChildReadInterrupted
    \/ ChildReadFails
    \/ SyncStep
    \/ SyncWriteShort
    \/ SyncWriteFails
    \/ SyncReadFails
    \/ ProgramStep

\* The same, in a parent process that has another child.
SyncNext ==
    \/ SyncOwnNext
    \/ OtherChildExits

\* terminate() is called once from another thread.
TerminateFromThread ==
    /\ \A i \in 1..Len(termLog) : termLog[i].caller # "thread"
    /\ \E killResult \in KillResults : Terminate(killResult, Len(termLog) + 1)

\* A synchronous run during which another thread calls terminate().
SyncTerminateNext ==
    \/ SyncOwnNext
    \/ TerminateFromThread

\* A synchronous run starts: the state of a launch, a StandardInput of some
\* length, and possibly another child of the parent process.
SyncInit ==
    /\ LaunchInit
    /\ ResponseInit
    /\ pfd = StdFds
    /\ hardLimit = RLIM_INFINITY
    /\ softLimit = RLIM_INFINITY
    /\ cerrno = "0"
    /\ spc = "launch"
    /\ stdInput \in 1..MaxInput
    /\ inWritten = 0
    /\ inPipe = 0
    /\ outPipe = 0
    /\ errPipe = 0
    /\ prog = NoProgram
    /\ otherChild \in {"none", "running"}
    /\ reaped = "none"
    /\ out_result = NoResult
    /\ syncError = "Success"
    /\ syncResult = "unset"
    /\ syncOps = <<>>
    /\ NoData

\* One call of SyncChildProcess::run.
SpecSync == SyncInit /\ [][SyncNext]_vars

\* One call of SyncChildProcess::run, and a call of terminate() from another
\* thread at any moment of it.
SyncTerminateInit == SyncInit /\ otherChild = "none"

SpecSyncTerminate == SyncTerminateInit /\ [][SyncTerminateNext]_vars

\* A synchronous run in which the child, the program it becomes and the
\* calling thread are scheduled: none stops while it has a step to take.
SpecSyncFair ==
    /\ SyncInit
    /\ [][SyncNext]_vars
    /\ WF_vars(ChildStep)
    /\ WF_vars(ProgramStep)
    /\ WF_vars(SyncStep)

(***************************************************************************)
(* Impl::createLaunchProfile and Impl::logProcessSpawn                     *)
(***************************************************************************)
\* Longest password of the model, in characters.
MaxPasswordLen == 3

Quote == "\""
Backslash == "\\"

\* Passwords over a letter, the quote and the backslash.
Passwords == UNION {[1..n -> {"a", Quote, Backslash}] : n \in 0..MaxPasswordLen}

\* static const int beforeLen = 12;
beforeLen == 12

\* R"("password":")", the text logProcessSpawn searches for
PasswordKey == <<Quote, "p", "a", "s", "s", "w", "o", "r", "d", Quote, ":", Quote>>

\* What replaces the password in the log.
RedactionMarker == <<"<", "r", "e", "d", "a", "c", "t", "e", "d", ">">>

\* std::string::npos, as the int it is stored in
npos == -1

\* json::Object::write of a string value: the quote and the backslash are
\* escaped with a backslash.
RECURSIVE JsonEscape(_)
JsonEscape(str) ==
    IF str = <<>> THEN <<>>
    ELSE (IF Head(str) \in {Quote, Backslash} THEN <<Backslash, Head(str)>> ELSE <<Head(str)>>)
         \o JsonEscape(Tail(str))

\* The fields createLaunchProfile writes before the password and after it.
ProfileBefore == <<"{", Quote, "i", "d", Quote, ":", Quote, Quote, ",">>
ProfileAfter == <<",", Quote, "c", "p", "u", Quote, ":", "0", "}">>

\* createLaunchProfile: StandardInput = profileObj.write();
LaunchProfile(pw) ==
    ProfileBefore \o PasswordKey \o JsonEscape(pw) \o <<Quote>> \o ProfileAfter

\* std::string::find(text, pos): the 0-based position of the first occurrence
\* at or after pos, npos when there is none.
FindFrom(text, pat, pos) ==
    LET hits == {i \in pos..(Len(text) - Len(pat)) :
                    SubSeq(text, i + 1, i + Len(pat)) = pat}
    IN IF hits = {} THEN npos ELSE CHOOSE i \in hits : \A j \in hits : i <= j

\* std::string::substr(pos, n) and substr(pos), 0-based
Substr(text, pos, n) == SubSeq(text, pos + 1, pos + n)

\* logProcessSpawn: the loop that moves lastSlashPos down over backslashes,
\* from quotePos - 1 and as long as it is above startPos1 + beforeLen.
RECURSIVE LastSlashPos(_, _, _)
LastSlashPos(text, pos, floor) ==
    IF pos > floor /\ text[pos + 1] = Backslash
    THEN LastSlashPos(text, pos - 1, floor)
    ELSE pos

\* logProcessSpawn: if ((startPos2 - lastSlashPos) % 2 == 0) break;
ScanEnds(quotePos, lastSlashPos) == (quotePos - lastSlashPos) % 2 = 0

\* A launch profile is formed from the options; logProcessSpawn is entered.
LogInit ==
    /\ lpc = "start"
    /\ password \in Passwords
    /\ StandardInput = LaunchProfile(password)
    /\ startPos1 = 0
    /\ startPos2 = 0
    /\ wasEmpty = TRUE
    /\ scanParity = 0
    /\ logged = <<>>

\* int startPos1 = StandardInput.find(R"("password":")");
\* int startPos2 = startPos1 + beforeLen; bool wasEmpty = true;
\* Without the field nothing is assigned to strippedStdin, which is logged.
LogFindPassword ==
    /\ lpc = "start"
    /\ startPos1' = FindFrom(StandardInput, PasswordKey, 0)
    /\ startPos2' = startPos1' + beforeLen
    /\ IF startPos1' # npos
       THEN /\ lpc' = "scan"
            /\ UNCHANGED logged
       ELSE /\ lpc' = "logged"
            /\ logged' = <<>>
    /\ UNCHANGED <<password, StandardInput, wasEmpty, scanParity>>
    /\ UNCHANGED <<responseVars, launchVars, syncVars,
                   cipc, ciCtor, ciArgs, ciImpl, ciJson, rqpc, rqDoc, rqResult,
                   ipc, in_options, Arguments, contextUsername>>

\* One pass of while (true): the next quote at or after startPos2 is found;
\* an empty value ends the loop; otherwise the backslashes before the quote
\* are counted and the parity test ends the loop or lets it go round again.
LogScanQuote ==
    /\ lpc = "scan"
    /\ LET quotePos == FindFrom(StandardInput, <<Quote>>, startPos2)
           empty == (quotePos = startPos1 + beforeLen)
           lastSlashPos == LastSlashPos(StandardInput, quotePos - 1, startPos1 + beforeLen)
       IN /\ startPos2' = quotePos
          /\ wasEmpty' = empty
          /\ IF empty \/ ScanEnds(quotePos, lastSlashPos)
             THEN lpc' = "strip" /\ UNCHANGED scanParity
             ELSE lpc' = "scan" /\ scanParity' = 1 - scanParity
    /\ UNCHANGED <<password, StandardInput, startPos1, logged>>
    /\ UNCHANGED <<responseVars, launchVars, syncVars,
                   cipc, ciCtor, ciArgs, ciImpl, ciJson, rqpc, rqDoc, rqResult,
                   ipc, in_options, Arguments, contextUsername>>

\* strippedStdin = wasEmpty ? StandardInput :
\*    StandardInput.substr(0, startPos1 + beforeLen) + "<redacted>" + StandardInput.substr(startPos2);
\* then logDebugMessage(... + strippedStdin).
LogStripped ==
    /\ lpc = "strip"
    /\ logged' = IF wasEmpty THEN StandardInput
                 ELSE Substr(StandardInput, 0, startPos1 + beforeLen)
                      \o RedactionMarker \o Substr(StandardInput, startPos2, Len(StandardInput) - startPos2)
    /\ lpc' = "logged"
    /\ UNCHANGED <<password, StandardInput, startPos1, startPos2, wasEmpty, scanParity>>
    /\ UNCHANGED <<responseVars, launchVars, syncVars,
                   cipc, ciCtor, ciArgs, ciImpl, ciJson, rqpc, rqDoc, rqResult,
                   ipc, in_options, Arguments, contextUsername>>

LogNext ==
    \/ LogFindPassword
    \/ LogScanQuote
    \/ LogStripped

LogOnlyInit ==
    ResponseInit /\ NoLaunch /\ NoSync /\ Pid = -1 /\ LogInit /\ NoDocuments

\* logProcessSpawn, for every password of the model.
SpecLog == LogOnlyInit /\ [][LogNext]_vars

\* logProcessSpawn runs on the thread that called run(): the thread goes on
\* executing it as long as it has a step to take.
SpecLogFair == LogOnlyInit /\ [][LogNext]_vars /\ WF_vars(LogNext)

\* Nothing is launched, logged, constructed or parsed yet.
DataOnlyInit == ResponseInit /\ NoLaunch /\ NoSync /\ NoData /\ Pid = -1

\* ClusterInfoResponse: construction and encoding, for every argument of the model.
SpecClusterInfo == DataOnlyInit /\ [][ClusterNext]_vars

\* Request::fromJson, for every document of the model.
SpecRequest == DataOnlyInit /\ [][RequestNext]_vars

\* Request::fromJson on the documents of job-state requests.
SpecJobRequest == DataOnlyInit /\ [][JobRequestNext]_vars

\* The constructor of AbstractChildProcess::Impl, for every ProcessOptions of
\* the model.
SpecImpl == DataOnlyInit /\ [][ConstructImpl]_vars

\* Every constructed response, with the thread that constructed it and its
\* position in that thread's order.
AllConstructed ==
    {<<t, i>> : t \in Threads, i \in 1..MaxResponses} \cap
    UNION {{<<t, i>> : i \in 1..Len(constructed[t])} : t \in Threads}

Counted ==
    {p \in AllConstructed : ~((constructed[p[1]][p[2]].ResponseType = "HEARTBEAT")
                              \/ (constructed[p[1]][p[2]].ResponseType = "ERROR"))}

IdAt(p) == constructed[p[1]][p[2]].ResponseId

\* C1: the responses of a type other than HEARTBEAT and ERROR, constructed by
\* any threads in any interleaving, have pairwise distinct ResponseId values.
C1_DistinctIds ==
    \A p \in Counted, q \in Counted : (p # q) => (IdAt(p) # IdAt(q))

\* Counted responses of two different threads exist, and two threads are
\* inside the constructor of a counted response at the same time.
C1_Witness ==
    /\ \E t \in Threads, u \in Threads :
        /\ t # u
        /\ rpc[t] = "impl" /\ ~IsUncounted(rtype[t])
        /\ rpc[u] = "impl" /\ ~IsUncounted(rtype[u])
    /\ \E p \in Counted, q \in Counted : p[1] # q[1]

\* C2: every HEARTBEAT and ERROR response has ResponseId 0, and the counter
\* equals the number of responses of the other types constructed so far: the
\* HEARTBEAT and ERROR constructions have not moved it.
C2_UncountedLeaveCounter ==
    /\ \A p \in AllConstructed \ Counted : IdAt(p) = 0
    /\ NEXT_RESPONSE_ID = Cardinality(Counted)

\* HEARTBEAT and ERROR responses were constructed and then a response of
\* another type was.
C2_Witness ==
    \E t \in Threads, i \in 1..MaxResponses, j \in 1..MaxResponses, k \in 1..MaxResponses :
        /\ i < k /\ j < k /\ k <= Len(constructed[t])
        /\ constructed[t][i].ResponseType = "HEARTBEAT"
        /\ constructed[t][j].ResponseType = "ERROR"
        /\ constructed[t][k].ResponseType = "CLUSTER_INFO"

\* C3: of two responses of a type other than HEARTBEAT and ERROR constructed
\* by the same thread, the later one has the strictly greater ResponseId.
C3_IncreasingPerThread ==
    \A p \in Counted, q \in Counted :
        (p[1] = q[1] /\ p[2] < q[2]) => IdAt(p) < IdAt(q)

\* One thread constructed two counted responses with a HEARTBEAT or ERROR
\* response of its own in between, while the other thread constructed a
\* counted response as well.
C3_Witness ==
    \E p \in Counted, q \in Counted, r \in Counted :
        /\ p[1] = q[1] /\ p[2] + 1 < q[2]
        /\ <<p[1], p[2] + 1>> \notin Counted
        /\ r[1] # p[1]
        /\ IdAt(p) < IdAt(r) /\ IdAt(r) < IdAt(q)

(***************************************************************************)
(* Claims about system/Process.cpp                                         *)
(***************************************************************************)
\* The child is at its call of exec, or past it in the new image.
AtExec == cpc \in {"exec", "execed"}

\* The child left the read loop in a way that makes closeParentFds sweep.
Swept == readError \/ ~fdsRead

\* C4 as stated: when the child calls exec, every descriptor it inherited
\* other than 0, 1 and 2 has been closed.
C4_AllInheritedClosedAtExec ==
    AtExec => (cfd \cap (inherited \ {0, 1, 2}) = {})

\* C4, amended: when the child calls exec, every descriptor it inherited
\* other than 0, 1 and 2 and numbered below the hard limit has been closed,
\* where after the fallback sweep under an unbounded hard limit 1024 stands
\* for the limit.
C4_InheritedBelowLimitClosedAtExec ==
    AtExec =>
        LET limit == IF Swept /\ hardLimit = RLIM_INFINITY THEN 1024 ELSE hardLimit
        IN \A fd \in inherited \ {0, 1, 2} : (fd < limit) => (fd \notin cfd)

\* The child is at exec having closed from the parent's list, which the parent
\* had scanned before the child closed its unused pipe ends and which held a
\* descriptor above 1024; the parent has not returned from run() yet.
C4_Witness ==
    /\ cpc = "exec"
    /\ ~Swept
    /\ hardLimit = RLIM_INFINITY
    /\ 1030 \in inherited
    /\ \E i \in 1..Len(openFds) : openFds[i] = WriteEnd(fds.Input)
    /\ ppc = "close_ctl"

\* C5: once the child's read of the control pipe returns no data, the child
\* leaves the read loop and reaches exec.
C5_EmptyReadLeadsToExec ==
    (cpc = "read" /\ ctl = <<>> /\ ~CtlWriterOpen) ~> (cpc = "exec")

\* The operations that are safe between fork and exec.
AfterForkSafe == {"setpgid", "pthread_sigmask", "close", "dup2", "read", "exec", "_exit"}

\* C6: between fork and exec the child performs only after-fork-safe
\* operations.
C6_ChildOnlyAfterForkSafe ==
    \A i \in 1..Len(childOps) : childOps[i] \in AfterForkSafe

\* C7: a child that ends on a failure between fork and exec ends by _exit with
\* the code 153.
C7_FailureEndsBy_exit ==
    (cpc = "exited") => (childEnd = [how |-> "_exit", code |-> 153])

\* C8: terminate() called after run() returned success and the child has
\* exited returns success.
C8_TerminateExitedChildSucceeds ==
    \A i \in 1..Len(termLog) :
        (termLog[i].launched /\ termLog[i].childExited) => termLog[i].result = "Success"

\* C9: when ::kill fails with EPERM or ESRCH terminate() returns success, and
\* when it fails with another errno terminate() returns that error.
C9_KillFailureResult ==
    \A i \in 1..Len(termLog) :
        (termLog[i].killed /\ termLog[i].killResult # "OK") =>
            termLog[i].result =
                (IF termLog[i].killResult \in {"EPERM", "ESRCH"}
                 THEN "Success" ELSE termLog[i].killResult)

\* terminate() delivered the signal three times: the delivery failed with
\* EPERM, with ESRCH and with EINVAL.
C9_Witness ==
    \E i, j, k \in 1..Len(termLog) :
        /\ termLog[i].killed /\ termLog[i].killResult = "EPERM"
        /\ termLog[j].killed /\ termLog[j].killResult = "ESRCH"
        /\ termLog[k].killed /\ termLog[k].killResult = "EINVAL"

\* C10: terminate() called after run() returned success sends SIGTERM to the
\* negated pid of the forked child.
C10_TerminateSignalsChildGroup ==
    \A i \in 1..Len(termLog) :
        termLog[i].launched =>
            /\ termLog[i].killed
            /\ termLog[i].signal = "SIGTERM"
            /\ termLog[i].target = -termLog[i].childPid

(***************************************************************************)
(* Claims about SyncChildProcess::run                                      *)
(***************************************************************************)
\* C11: a synchronous run whose write of the standard input failed (a system
\* error or a short write) eventually returns to its caller, and has reaped
\* the child of the instance when it does.
C11_FailedWriteReturnsReaped ==
    (spc = "terminate") ~> (spc = "returned" /\ reaped = "own")

\* C12: when the write of the standard input fails, run() calls terminate()
\* and then ::waitpid, in that order and with nothing between them, before it
\* returns: it is never back at its caller with the failed write not followed
\* by both calls.
C12_FailedWriteTerminatesThenWaits ==
    (syncOps # <<>> /\ syncOps[1] = "write_failed") =>
        /\ (spc = "wait") => (syncOps = <<"write_failed", "terminate">>)
        /\ (spc = "returned") => (syncOps = <<"write_failed", "terminate", "waitpid">>)
        /\ (spc \in {"wait", "returned"}) =>
              \E i \in 1..Len(termLog) :
                 termLog[i].caller = "run" /\ termLog[i].syncAt = "terminate"
        /\ spc \in {"terminate", "wait", "returned"}

C12_Witness ==
    /\ spc = "returned"
    /\ syncOps = <<"write_failed", "terminate", "waitpid">>
    /\ syncError \in {"write_error", "io_error"}

\* C13: once the standard input is written and the child runs a program that
\* reads its input to the end, writes to its two output streams and exits,
\* SyncChildProcess::run eventually returns, unless one of its reads failed.
C13_ProgramRunReturns ==
    (spc = "read_out" /\ cpc \in {"execed", "writing"})
        ~> (spc = "returned" \/ syncError # "Success")

\* C14: when AbstractChildProcess::run returns an error to its caller (a
\* pipe could not be created, fork failed, or the descriptor list could not
\* be sent), no pipe descriptor opened for the instance is open in the parent.
C14_PipesClosedOnErrorReturn ==
    (ppc = "returned" /\ runResult \notin {"unset", "Success"}) =>
        LET PipeEnds == UNION {{ReadEnd(p), WriteEnd(p)} :
                   p \in {fds.Input, fds.Output, fds.Error, fds.CloseFd} \ {NoPipe}}
        IN PipeEnds \cap pfd = {}

\* C15: a call of terminate() from another thread, made while
\* SyncChildProcess::run of the instance is past its launch and has not
\* returned, sends SIGTERM to the process group of that run's child and to
\* nothing else.
C15_ConcurrentTerminateSignalsChildGroup ==
    \A i \in 1..Len(termLog) :
        (/\ termLog[i].caller = "thread"
         /\ termLog[i].syncAt \in {"write_in", "terminate", "read_out", "read_err", "wait"}) =>
            /\ termLog[i].killed
            /\ termLog[i].signal = "SIGTERM"
            /\ termLog[i].target = -termLog[i].childPid

(***************************************************************************)
(* Claims about Impl::logProcessSpawn                                      *)
(***************************************************************************)
\* C16: for a launch profile with a non-empty password, the text
\* logProcessSpawn logs is the profile with the redaction marker in place of
\* the whole password value, from its opening quote to its closing quote.
C16_LoggedProfileRedactsWholePassword ==
    (lpc = "logged" /\ password # <<>>) => (logged = ProfileBefore \o PasswordKey \o RedactionMarker \o <<Quote>> \o ProfileAfter)

(***************************************************************************)
(* Claims about ClusterInfoResponse::toJson                                *)
(***************************************************************************)
\* C17: a response built by the constructor with containers encodes
\* containerSupport = true with allowUnknownImages and images, and encodes
\* defaultImage exactly when the default image it was given is not empty; one
\* built by the constructor without containers encodes containerSupport =
\* false and none of defaultImage, allowUnknownImages and images.
C17_ContainerFieldsFollowConstructor ==
    (cipc = "encoded") =>
        /\ FIELD.CONTAINER_SUPPORT \in DOMAIN ciJson
        /\ IF ciCtor = "with_containers"
           THEN /\ ciJson[FIELD.CONTAINER_SUPPORT] = TRUE
                /\ {FIELD.ALLOW_UNKNOWN_IMAGES, FIELD.IMAGES} \subseteq DOMAIN ciJson
                /\ (FIELD.DEFAULT_IMAGE \in DOMAIN ciJson) <=> (ciArgs.defaultImage # "")
                /\ (FIELD.DEFAULT_IMAGE \in DOMAIN ciJson) =>
                      (ciJson[FIELD.DEFAULT_IMAGE] = ciArgs.defaultImage)
           ELSE /\ ciJson[FIELD.CONTAINER_SUPPORT] = FALSE
                /\ {FIELD.DEFAULT_IMAGE, FIELD.ALLOW_UNKNOWN_IMAGES, FIELD.IMAGES}
                     \cap DOMAIN ciJson = {}

C17_Witness ==
    /\ cipc = "encoded"
    /\ ciCtor = "with_containers"
    /\ ciArgs.defaultImage = ""
    /\ FIELD.DEFAULT_IMAGE \notin DOMAIN ciJson
    /\ FIELD.IMAGES \in DOMAIN ciJson

\* C18: every encoded ClusterInfoResponse has the three keys of the base
\* encoding and the arrays config, resourceLimits and placementConstraints,
\* empty or not, and has the key queues exactly when its queue list is not
\* empty.
C18_BaseAndArrayFieldsAlwaysEncoded ==
    (cipc = "encoded") =>
        /\ {FIELD.MESSAGE_TYPE, FIELD.REQUEST_ID, FIELD.RESPONSE_ID} \subseteq DOMAIN ciJson
        /\ {FIELD.CONFIG, FIELD.RESOURCE_LIMITS, FIELD.PLACEMENT_CONSTRAINTS}
              \subseteq DOMAIN ciJson
        /\ Len(ciJson[FIELD.CONFIG]) = Len(ciImpl.Config)
        /\ Len(ciJson[FIELD.RESOURCE_LIMITS]) = Len(ciImpl.ResourceLimits)
        /\ Len(ciJson[FIELD.PLACEMENT_CONSTRAINTS]) = Len(ciImpl.PlacementConstraints)
        /\ (FIELD.QUEUES \in DOMAIN ciJson) <=> (ciImpl.Queues # <<>>)

C18_Witness ==
    /\ cipc = "encoded"
    /\ ciImpl.Queues = <<>>
    /\ ciImpl.Config = <<>>
    /\ ciImpl.ResourceLimits = <<>>
    /\ ciImpl.PlacementConstraints = <<>>
    /\ FIELD.QUEUES \notin DOMAIN ciJson
    /\ FIELD.CONFIG \in DOMAIN ciJson

(***************************************************************************)
(* Claims about Request::fromJson                                          *)
(***************************************************************************)
\* C19: for a document whose messageType is negative or above the highest
\* known request type, fromJson fails, the text of the error contains the
\* number, no request is produced and nothing is logged.
C19_OutOfRangeTypeRejected ==
    (/\ rqpc = "parsed"
     /\ FIELD.MESSAGE_TYPE \in DOMAIN rqDoc
     /\ (rqDoc[FIELD.MESSAGE_TYPE] < 0 \/ rqDoc[FIELD.MESSAGE_TYPE] > (Len(RequestTypes) - 1))) =>
        /\ rqResult.failed
        /\ Contains(rqResult.text, DecimalText(rqDoc[FIELD.MESSAGE_TYPE]))
        /\ rqResult.request = NoRequest
        /\ rqResult.log = <<>>

C19_Witness ==
    /\ rqpc = "parsed"
    /\ FIELD.MESSAGE_TYPE \in DOMAIN rqDoc
    /\ rqDoc[FIELD.MESSAGE_TYPE] = -4
    /\ rqResult.failed

\* C20: for a document without the messageType field, whatever else it
\* holds, fromJson fails and the text of the error names the field.
C20_MissingTypeRejected ==
    (rqpc = "parsed" /\ FIELD.MESSAGE_TYPE \notin DOMAIN rqDoc) =>
        /\ rqResult.failed
        /\ Contains(rqResult.text, <<FIELD.MESSAGE_TYPE>>)

C20_Witness ==
    /\ rqpc = "parsed"
    /\ FIELD.MESSAGE_TYPE \notin DOMAIN rqDoc
    /\ FIELD.REQUEST_ID \in DOMAIN rqDoc
    /\ rqResult.failed

\* C21: for a document whose type is BOOTSTRAP and that lacks both requestId
\* and the version (or one of its numbers), fromJson fails and logs exactly
\* two ERROR entries: first that of the base validation, naming requestId,
\* then that of the subtype, naming the version field that is missing.
C21_BaseErrorLoggedBeforeSubtypeError ==
    (/\ rqpc = "parsed"
     /\ FIELD.MESSAGE_TYPE \in DOMAIN rqDoc
     /\ (rqDoc[FIELD.MESSAGE_TYPE] + 1) \in DOMAIN RequestTypes
     /\ RequestTypes[rqDoc[FIELD.MESSAGE_TYPE] + 1] = "BOOTSTRAP"
     /\ FIELD.REQUEST_ID \notin DOMAIN rqDoc
     /\ \/ FIELD.VERSION \notin DOMAIN rqDoc
        \/ FIELD.VERSION_MINOR \notin DOMAIN rqDoc[FIELD.VERSION]) =>
        /\ rqResult.failed
        /\ Len(rqResult.log) = 2
        /\ rqResult.log[1] = [Level |-> "ERR", names |-> FIELD.REQUEST_ID]
        /\ rqResult.log[2].Level = "ERR"
        /\ rqResult.log[2].names =
              IF FIELD.VERSION \in DOMAIN rqDoc THEN FIELD.VERSION_MINOR ELSE FIELD.VERSION

C21_Witness ==
    /\ rqpc = "parsed"
    /\ FIELD.MESSAGE_TYPE \in DOMAIN rqDoc
    /\ rqDoc[FIELD.MESSAGE_TYPE] = 1
    /\ FIELD.REQUEST_ID \notin DOMAIN rqDoc
    /\ FIELD.VERSION \notin DOMAIN rqDoc
    /\ Len(rqResult.log) = 2

(***************************************************************************)
(* Claims about the job-state request                                      *)
(***************************************************************************)
\* C22: when the document of a job-state request has a jobEndTime or a
\* jobStartTime that is no date, and the document without that field
\* decodes, the document decodes as well: the getter of that field reports
\* an error and no value, and every other field of the request has the value
\* it has for the document without the field.
C22_InvalidTimeMarksThatFieldAlone ==
    \A key \in {FIELD.JOB_END_TIME, FIELD.JOB_START_TIME} :
        LET without == [k \in (DOMAIN rqDoc) \ {key} |-> rqDoc[k]]
            base == FromJson(without)
        IN (/\ rqpc = "parsed"
            /\ key \in DOMAIN rqDoc
            /\ rqDoc[key] = "not a date time"
            /\ ~base.failed) =>
               /\ ~rqResult.failed
               /\ rqResult.log = <<>>
               /\ rqResult.request.Type = "GET_JOB"
               /\ rqResult.request.Id = base.request.Id
               /\ IF key = FIELD.JOB_END_TIME
                  THEN /\ rqResult.request.Job.EndTime = [error |-> TRUE, value |-> <<>>]
                       /\ [rqResult.request.Job EXCEPT !.EndTime = base.request.Job.EndTime]
                             = base.request.Job
                  ELSE /\ rqResult.request.Job.StartTime = [error |-> TRUE, value |-> <<>>]
                       /\ [rqResult.request.Job EXCEPT !.StartTime = base.request.Job.StartTime]
                             = base.request.Job

C22_Witness ==
    /\ rqpc = "parsed"
    /\ ~rqResult.failed
    /\ FIELD.JOB_END_TIME \in DOMAIN rqDoc
    /\ rqDoc[FIELD.JOB_END_TIME] = "not a date time"
    /\ rqResult.request.Job.EndTime.error
    /\ rqResult.request.Job.StartTime = [error |-> FALSE, value |-> <<"2020-03-15T15:00:00">>]
    /\ rqResult.request.Job.EncodedJobId = "Y2x1c3Rlci0xNDIK"

\* C23: when the jobStatuses array of a job-state request holds a name that
\* is no job state, and the document without the array decodes, the document
\* decodes as well: getStatusSet reports an error and no value, the valid
\* names of the array included, and every other field of the request has the
\* value it has for the document without the array.
C23_InvalidStatusLeavesNoStatusSet ==
    LET without == [k \in (DOMAIN rqDoc) \ {FIELD.JOB_STATUSES} |-> rqDoc[k]]
        base == FromJson(without)
    IN (/\ rqpc = "parsed"
        /\ FIELD.JOB_STATUSES \in DOMAIN rqDoc
        /\ \E i \in DOMAIN rqDoc[FIELD.JOB_STATUSES] :
               rqDoc[FIELD.JOB_STATUSES][i] = "NotAStatus"
        /\ ~base.failed) =>
           /\ ~rqResult.failed
           /\ rqResult.request.Job.StatusSet = [error |-> TRUE, value |-> <<>>]
           /\ [rqResult.request.Job EXCEPT !.StatusSet = base.request.Job.StatusSet]
                 = base.request.Job

C23_Witness ==
    /\ rqpc = "parsed"
    /\ ~rqResult.failed
    /\ FIELD.JOB_STATUSES \in DOMAIN rqDoc
    /\ rqDoc[FIELD.JOB_STATUSES] = <<"Running", "NotAStatus", "Pending">>
    /\ rqResult.request.Job.StatusSet.error
    /\ rqResult.request.Job.JobId = "444"

\* C24: the field set of a decoded job-state request is absent when the
\* document has no jobFields, and otherwise holds "id" and exactly the
\* fields of the array, whether the array lists "id" or not.
C24_FieldSetAlwaysHasId ==
    (rqpc = "parsed" /\ ~rqResult.failed) =>
        IF FIELD.JOB_FIELDS \in DOMAIN rqDoc
        THEN rqResult.request.Job.FieldSet =
                <<{"id"} \cup {rqDoc[FIELD.JOB_FIELDS][i] : i \in DOMAIN rqDoc[FIELD.JOB_FIELDS]}>>
        ELSE rqResult.request.Job.FieldSet = <<>>

C24_Witness ==
    /\ rqpc = "parsed"
    /\ ~rqResult.failed
    /\ FIELD.JOB_FIELDS \in DOMAIN rqDoc
    /\ rqDoc[FIELD.JOB_FIELDS] = <<"status", "statusMessage">>
    /\ rqResult.request.Job.FieldSet = <<{"id", "status", "statusMessage"}>>

\* C25: for the document of a job-state request that has no jobId, or whose
\* jobTags is present and is not an array, fromJson returns an error and no
\* request.
C25_MissingJobIdOrBadTagsRejected ==
    (/\ rqpc = "parsed"
     /\ \/ FIELD.JOB_ID \notin DOMAIN rqDoc
        \/ (FIELD.JOB_TAGS \in DOMAIN rqDoc /\ rqDoc[FIELD.JOB_TAGS].kind # "array")) =>
        /\ rqResult.failed
        /\ rqResult.request = NoRequest

C25_Witness ==
    /\ rqpc = "parsed"
    /\ FIELD.JOB_ID \in DOMAIN rqDoc
    /\ FIELD.JOB_TAGS \in DOMAIN rqDoc
    /\ rqDoc[FIELD.JOB_TAGS].kind = "number"
    /\ rqResult.failed

(***************************************************************************)
(* Claims about the wait of SyncChildProcess::run                          *)
(***************************************************************************)
\* C26: when SyncChildProcess::run returns after its ::waitpid, ExitCode is
\* the exit status of the child of this run, which the wait reaped, or it is
\* -1 because the wait failed for want of a child, and run returns Success.
C26_ExitCodeIsStatusOfOwnChild ==
    (spc = "returned" /\ syncOps # <<>> /\ syncOps[Len(syncOps)] = "waitpid") =>
        /\ syncResult = "Success"
        /\ \/ /\ reaped = "own"
              /\ out_result.ExitCode = IF cpc = "exited" THEN childEnd.code ELSE prog.status
           \/ /\ reaped = "none"
              /\ out_result.ExitCode = -1

(***************************************************************************)
(* Claims about the order of the steps of a launch                         *)
(***************************************************************************)
\* C27: what the child has done since fork is always a beginning of this
\* sequence: build the argument lists, become the leader of a process group,
\* clear the signal mask, close the pipe ends it does not use, redirect the
\* data pipes, read the control pipe and close descriptors, close the
\* control pipe, exec; a failed step is followed by ::exit or ::_exit alone.
\* The reading of the control pipe starts from the third redirection only,
\* and exec is reached only from the closing of the control pipe.
C27_ChildStepsInOrder ==
    /\ [](LET order == <<"new", "setpgid", "pthread_sigmask", "close", "dup2", "read",
                         "close", "exec">>
              n == Len(childOps)
              done == IF n > 0 /\ childOps[n] \in {"exit", "_exit"}
                      THEN SubSeq(childOps, 1, n - 1) ELSE childOps
          IN /\ Len(done) <= Len(order)
             /\ done = SubSeq(order, 1, Len(done)))
    /\ [][(cpc' = "read" /\ cpc # "read") => (cpc = "dup_err")]_vars
    /\ [][(cpc' = "execed" /\ cpc # "execed") =>
            (cpc = "exec" /\ ReadEnd(fds.CloseFd) \notin cfd /\ childOps[Len(childOps)] = "close")]_vars

C27_Witness ==
    /\ cpc = "execed"
    /\ childOps = <<"new", "setpgid", "pthread_sigmask", "close", "dup2", "read", "close", "exec">>

\* C28: when run() has returned after a fork, the parent no longer holds the
\* write end of the control pipe, whatever the outcome of the send; and once
\* the parent has started the send, a child reading the control pipe gets to
\* the end of its read (the sentinel, or a failed read) or to a pipe that is
\* empty with no write end open, on which ::read returns end of file.
C28_ControlPipeClosedAfterSend ==
    /\ []((ppc = "returned" /\ fds.CloseFd # NoPipe) => (WriteEnd(fds.CloseFd) \notin pfd))
    /\ (cpc = "read" /\ ppc \in {"write_list", "close_ctl", "returned"})
          ~> (cpc # "read" \/ (ctl = <<>> /\ ~CtlWriterOpen))

C28_Witness ==
    /\ ppc = "returned"
    /\ runResult = "write_error"
    /\ cpc = "read"
    /\ ctl = <<>>
    /\ ~CtlWriterOpen

(***************************************************************************)
(* Claims about the sweep of closeParentFds                                *)
(***************************************************************************)
\* C29: when the child reaches exec after the sweep of closeParentFds, no
\* descriptor it inherited numbered from 3 up to the soft limit of
\* RLIMIT_NOFILE, or up to 1024 when the soft limit is unbounded, is open.
C29_SweepReachesSoftLimit ==
    (AtExec /\ Swept) =>
        LET top == IF softLimit = RLIM_INFINITY THEN 1024 ELSE softLimit
        IN {fd \in cfd \cap inherited : fd >= startFd /\ fd < top} = {}

(***************************************************************************)
(* Claims about the errors of the parent's side of run()                   *)
(***************************************************************************)
\* C30: a failure on the parent's path of run() reaches the caller: after a
\* failed fork run() returns the error of fork, and run() returns Success
\* only when fork succeeded and the end-of-list sentinel was written to the
\* control pipe, so that it is still in the pipe or the child has read from
\* the pipe.
C30_ParentFailuresReachCaller ==
    ppc = "returned" =>
        /\ (forkPid = -1) => (runResult = "fork_error")
        /\ (runResult = "Success") =>
              /\ forkPid # -1
              /\ \/ \E i \in 1..Len(ctl) : ctl[i] = -1
                 \/ \E i \in 1..Len(childOps) : childOps[i] = "read"

(***************************************************************************)
(* Claims about the result of SyncChildProcess::run                        *)
(***************************************************************************)
\* C31: when SyncChildProcess::run has returned after a failed write of the
\* standard input or a failed read of an output stream, the value it returned
\* is that error, and it has called ::waitpid before returning.
C31_IoErrorReturnedAfterWait ==
    (spc = "returned" /\ syncError # "Success") =>
        /\ syncResult = syncError
        /\ syncOps[Len(syncOps)] = "waitpid"

(***************************************************************************)
(* Claims about the argument vector of the sandbox helper                  *)
(***************************************************************************)
\* C32: the argument vector of a constructed instance is the helper path,
\* then the --username, --workingdir and --pam-profile pairs that are given,
\* in that order, then one --mount pair for every mount with a host source,
\* its value being host:dest or host:dest:ro and nothing more, then /bin/sh,
\* -c and the command.
C32_ArgumentVectorShape ==
    (ipc = "constructed") =>
        LET RECURSIVE MountPairs(_)
            MountPairs(mounts) ==
                IF mounts = <<>> THEN <<>>
                ELSE (IF Head(mounts).HostSourcePath # <<>>
                      THEN << <<"--mount">>,
                              Head(mounts).HostSourcePath[1] \o <<":">>
                              \o Head(mounts).DestinationPath
                              \o (IF Head(mounts).IsReadOnly THEN <<":ro">> ELSE <<>>) >>
                      ELSE <<>>)
                     \o MountPairs(Tail(mounts))
        IN \E user \in {<<>>, << <<"--username">>, in_options.RunAsUser >>},
              dir \in {<<>>, << <<"--workingdir">>, in_options.WorkingDirectory >>},
              pam \in {<<>>, << <<"--pam-profile">>, in_options.PamProfile >>} :
              Arguments = <<RSandbox>> \o user \o dir \o pam
                          \o MountPairs(in_options.Mounts)
                          \o << <<"/bin/sh">>, <<"-c">>, Arguments[Len(Arguments)] >>

\* C38: --username is in the argument vector exactly when the run-as user is
\* neither all users nor empty, which is exactly when context.username of the
\* launch profile is not empty.
C38_UsernameFlagIffNamedUser ==
    (ipc = "constructed") =>
        LET hasFlag == \E i \in 1..Len(Arguments) : Arguments[i] = <<"--username">>
        IN /\ hasFlag <=> (in_options.RunAsUser # <<"*">> /\ in_options.RunAsUser # <<>>)
           /\ hasFlag <=> (contextUsername # <<>>)

(***************************************************************************)
(* Claims about the value 0 of ResponseId                                  *)
(***************************************************************************)
\* C33: no response of a type other than HEARTBEAT and ERROR has ResponseId
\* 0, the first one constructed in the process included.
C33_CountedIdNeverZero ==
    \A p \in Counted : IdAt(p) # 0

(***************************************************************************)
(* Claims about the pid recorded in the instance                           *)
(***************************************************************************)
\* C34: the pid of the instance is -1 until fork is called, and it is the pid
\* fork returned once run() has returned Success in the parent.
C34_PidIsForkedChild ==
    /\ (ppc \in {"start", "pipes", "fork"}) => (Pid = -1)
    /\ (ppc = "returned" /\ runResult = "Success") => (Pid = forkPid)

(***************************************************************************)
(* Claims about synchronous runs of two instances at the same time         *)
(***************************************************************************)
\* C35: while another instance of the process has a child of its own, the
\* ::waitpid of a synchronous run never reaps that child, and the run never
\* reports that child's exit status as its ExitCode.
C35_RunReapsOnlyItsOwnChild ==
    /\ reaped # "other"
    /\ (otherChild # "none" /\ spc = "returned") => (out_result.ExitCode # 42)

(***************************************************************************)
(* Claims about what closeParentFds leaves open                            *)
(***************************************************************************)
\* C36: while the child reads the control pipe and closes descriptors, by
\* the list or by the sweep, and up to its call of exec, descriptors 0, 1 and
\* 2 stay open in it; the read end of the control pipe stays open until
\* closeParentFds is over.
C36_HygieneKeepsStdAndControlPipe ==
    /\ (cpc \in {"read", "after_loop", "close_ctl", "exec", "execed"}) => (StdFds \subseteq cfd)
    /\ (cpc \in {"read", "after_loop", "close_ctl"}) => (ReadEnd(fds.CloseFd) \in cfd)

\* The child is at exec after the list-driven path: the parent sent the whole
\* list, with 0, 1, 2 and the read end of the control pipe in it, and the
\* child has read it to the sentinel.
C36_Witness ==
    /\ cpc = "exec" /\ fdsRead /\ ~readError
    /\ sent = Len(openFds) /\ ctl = <<>>
    /\ \A fd \in StdFds \cup {ReadEnd(fds.CloseFd)} :
          \E i \in 1..Len(openFds) : openFds[i] = fd

(***************************************************************************)
(* Claims about the end of the scan of logProcessSpawn                     *)
(***************************************************************************)
\* C37: for every password, the scan of logProcessSpawn for the closing
\* quote ends and the launch profile is logged.
C37_RedactionScanEnds ==
    (lpc = "start") ~> (lpc = "logged")

(***************************************************************************)
(* Claims about the descriptors left after SyncChildProcess::run           *)
(***************************************************************************)
\* C39: when SyncChildProcess::run has returned, with Success or with an
\* error, the parent holds none of the descriptors of the pipes of the
\* instance: not the write end of the input pipe, not the read ends of the
\* output and error pipes, not an end of the control pipe.
C39_NoPipeOpenAfterSyncRun ==
    (spc = "returned") =>
        LET held == (IF fds.Input # NoPipe THEN {WriteEnd(fds.Input)} ELSE {})
                    \cup (IF fds.Output # NoPipe THEN {ReadEnd(fds.Output)} ELSE {})
                    \cup (IF fds.Error # NoPipe THEN {ReadEnd(fds.Error)} ELSE {})
                    \cup (IF fds.CloseFd # NoPipe
                          THEN {ReadEnd(fds.CloseFd), WriteEnd(fds.CloseFd)} ELSE {})
        IN held \cap pfd = {}

(***************************************************************************)
(* Claims about the ways the child leaves execChild                        *)
(***************************************************************************)
\* C40: the forked child is inside execChild until it has called exec, ::exit
\* or ::_exit; it is never anywhere else in the program, and it never
\* returns from run() to the caller.
C40_ChildNeverReturnsFromRun ==
    LET InExecChild == {"args", "setpgid", "sigmask", "close_unused", "dup_in", "dup_out",
                        "dup_err", "read", "after_loop", "close_ctl", "exec"}
    IN /\ cpc \in InExecChild \cup {"none", "exited", "execed", "writing", "finished"}
       /\ (cpc \in InExecChild \cup {"none"}) => (childEnd.how = "none")
       /\ (cpc = "exited") => (childEnd.how \in {"exit", "_exit"})
       /\ (cpc \in {"execed", "writing", "finished"}) => (childEnd.how = "exec")
       /\ \A i \in 1..Len(childOps) : childOps[i] # "return"

\* exec failed in the child, which ended by ::_exit, and run() has returned
\* in the parent.
C40_Witness ==
    /\ cpc = "exited" /\ childEnd.how = "_exit"
    /\ Len(childOps) >= 2 /\ childOps[Len(childOps) - 1] = "exec"
    /\ ppc = "returned" /\ runResult = "Success"

====
